---- MODULE Spec2Model ----
(***************************************************************************)
(* Model of the lanelet2 map validator (autoware_lanelet2_map_validator)   *)
(* and of the static centerline generator node.                            *)
(*                                                                         *)
(* The requirements scheduler, main.cpp as kept in                         *)
(* src/map/autoware_lanelet2_map_validator/src/lib/utils.cpp: the          *)
(* requirements document, parse_validators, create_validation_queue,       *)
(* descript_unused_validators_to_json, check_prerequisite_completion, the  *)
(* loop of new_process_requirements, summarize_validator_results and the   *)
(* two main() variants of the repository (Spec, SpecQueue, SpecLive,       *)
(* SpecFold), and main without a requirements file (SpecSinglePass).       *)
(*                                                                         *)
(* The traffic light facing validator, check_traffic_light_facing of       *)
(* validators/traffic_light/traffic_light_facing.cpp and of                *)
(* src/unnamed/part_002, called twice on one map (SpecFacing,              *)
(* SpecZeroLength); get_linestring_midpoint_2d (SpecMidpoint); the turn    *)
(* direction validator of validators/intersection (SpecTurn).              *)
(*                                                                         *)
(* StaticCenterlineGeneratorNode and its callbacks (SpecNode).             *)
(***************************************************************************)
EXTENDS Integers, Sequences, FiniteSets, TLC

(***************************************************************************)
(* Bounds of the model.                                                    *)
(***************************************************************************)
\* validators declared in the requirements document, named 1..NumValidators
NumValidators == 3
\* prerequisite entries in the whole document
MaxPrereqEntries == 2
\* issues one run of the external check reports
MaxIssues == 1
\* prerequisite entries of the documents given to create_validation_queue
\* alone (SpecQueue)
MaxGraphEdges == 3
\* issues one check emits, where the loop over them runs on its own (SpecFold)
MaxFoldIssues == 3
\* traffic light linestrings, regulatory elements and lanelets of the map
NumLights == 2
NumRegElems == 2
NumLanelets == 2

(***************************************************************************)
(* Severities. lanelet::validation::Severity is {Error, Warning, Info};    *)
(* ValidatorInfo::Severity adds NONE after them, and the code converts     *)
(* between the two by integer casts.                                       *)
(***************************************************************************)
ERROR == 0
WARNING == 1
INFO == 2
NONE == 3

IssueSeverities == {ERROR, WARNING, INFO}

\* lanelet::validation::toString(Severity)
toString(s) ==
  CASE s = ERROR -> "Error"
    [] s = WARNING -> "Warning"
    [] s = INFO -> "Info"
    [] OTHER -> "?"

Names == 1..NumValidators
\* names a prerequisite entry may carry: 0 is a name no validator has
PrereqNames == 0..NumValidators
ForgiveFlags == {"true", "false", "absent"}

MsgUnused == "Prerequisites don't exist OR they are making a loop."
MsgBlocked == "Prerequisites didn't pass"
MsgCheck == "issue found by the check"

VARIABLES
  pc,                    \* position in main / new_process_requirements
  json_data,             \* the requirements document (annotated in place)
  validators,            \* Validators: name -> ValidatorInfo
  graph,                 \* create_validation_queue: prereq -> dependents
  indegree,              \* create_validation_queue: name -> count
  q,                     \* create_validation_queue: std::queue
  validation_queue,      \* execution order
  remaining_validators,  \* Validators left unprocessed
  next_validator,        \* index of the loop over validation_queue
  validate_map_calls,    \* checksFilter of every validateMap call, in order
  num_issues,            \* result of summarize_validator_results
  ret,                   \* return value of new_process_requirements
  exit_code,             \* exit code of the process
  exception,             \* the exception that ended the process, if any
  fold_issues,           \* temp_issues[0].issues of one executed validator
  fold_next,             \* position of the loop over fold_issues
  fold_max_severity,     \* validators[validator_name].max_severity in that loop
  lanelet_map,           \* the LaneletMap handed to the facing validator
  impl,                  \* which check_traffic_light_facing of the repository runs
  facing_pc,             \* position in check_traffic_light_facing
  invocation,            \* number of the current call of the validator
  reg_elem_next,         \* position of the loop over regulatoryElementLayer
  tl_has_been_judged_as_correct,   \* traffic_light_facing.cpp: id -> bool
  tl_has_been_judged_as_wrong,     \* traffic_light_facing.cpp: id -> bool
  tl_has_corresponding_stop_line,  \* part_002: id -> bool
  tl_is_facing_correct,            \* part_002: id -> bool
  facing_issues,         \* lanelet::validation::Issues of the current call
  first_issues,          \* the Issues the first call returned
  midpoint_linestring,   \* the ConstLineString3d given to get_linestring_midpoint_2d
  midpoint_pc,           \* position of that call
  midpoint_result,       \* the Point2d it returned, or what() of what it threw
  node_pc,               \* StaticCenterlineGeneratorNode: spinning or ended by an exception
  node_exception,        \* what ended it
  requests,              \* callbacks the node has run
  map_loads,             \* maps the node has loaded; a loaded map is known by its number
  map_bin_ptr_,          \* nullptr (0) or the LaneletMapBin of a loaded map
  original_map_ptr_,     \* nullptr (0) or the LaneletMap of a loaded map
  route_handler_ptr_,    \* nullptr (0) or the RouteHandler of a loaded map
  centerline_handler_,   \* CenterlineHandler
  validations,           \* runs of validate_centerline that came to their end
  callback,              \* the callback run last and what it was given
  response,              \* the response of the service called last
  connection_result,     \* what the last call of check_lanelet_connection gave
  saved_maps,            \* the maps save_map wrote, in order
  single_main,           \* single-pass mode: which main of the repository runs
  single_pc,             \* single-pass mode: position in main
  single_issues,         \* single-pass mode: what validateMap returned
  single_exit_code,      \* single-pass mode: exit code of the process
  turn_map,              \* the LaneletMap handed to the turn direction validator
  turn_pc,               \* position in checkTurnDirectionTagging
  polygon_next,          \* position of the loop over polygonLayer
  turn_issues,           \* its lanelet::validation::Issues
  turn_checked,          \* ids of the lanelets that passed the test of line 65
  turn_exception         \* the exception that ended the call, if any

scheduler_vars == <<pc, json_data, validators, graph, indegree, q, validation_queue,
                    remaining_validators, next_validator, validate_map_calls,
                    num_issues, ret, exit_code, exception>>

fold_vars == <<fold_issues, fold_next, fold_max_severity>>

facing_vars == <<lanelet_map, impl, facing_pc, invocation, reg_elem_next,
                 tl_has_been_judged_as_correct, tl_has_been_judged_as_wrong,
                 tl_has_corresponding_stop_line, tl_is_facing_correct,
                 facing_issues, first_issues>>

midpoint_vars == <<midpoint_linestring, midpoint_pc, midpoint_result>>

\* the state of the procedures outside the validator's scheduler and the
\* facing validator
node_vars == <<node_pc, node_exception, requests, map_loads, map_bin_ptr_,
               original_map_ptr_, route_handler_ptr_, centerline_handler_, validations,
               callback, response, connection_result, saved_maps>>

single_vars == <<single_main, single_pc, single_issues, single_exit_code>>

turn_vars == <<turn_map, turn_pc, polygon_next, turn_issues, turn_checked, turn_exception>>

rest_vars == <<midpoint_vars, node_vars, single_vars, turn_vars>>

\* what the scheduler's steps leave alone
other_vars == <<fold_vars, facing_vars, rest_vars>>

main_vars == <<scheduler_vars, fold_vars, facing_vars>>

vars == <<scheduler_vars, fold_vars, facing_vars, rest_vars>>

\* the parts of the state that belong to a procedure that is not running
SchedulerIdle ==
  /\ pc = "not_started"
  /\ json_data = <<>>
  /\ validators = <<>>
  /\ graph = <<>>
  /\ indegree = <<>>
  /\ q = <<>>
  /\ validation_queue = <<>>
  /\ remaining_validators = <<>>
  /\ next_validator = 1
  /\ validate_map_calls = <<>>
  /\ num_issues = 0
  /\ ret = 0
  /\ exit_code = -1
  /\ exception = "none"

FoldIdle ==
  /\ fold_issues = <<>>
  /\ fold_next = 1
  /\ fold_max_severity = NONE

FacingIdle ==
  /\ lanelet_map = <<>>
  /\ impl = "none"
  /\ facing_pc = "not_started"
  /\ invocation = 0
  /\ reg_elem_next = 1
  /\ tl_has_been_judged_as_correct = <<>>
  /\ tl_has_been_judged_as_wrong = <<>>
  /\ tl_has_corresponding_stop_line = <<>>
  /\ tl_is_facing_correct = <<>>
  /\ facing_issues = <<>>
  /\ first_issues = <<>>

MidpointIdle ==
  /\ midpoint_linestring = <<>>
  /\ midpoint_pc = "not_started"
  /\ midpoint_result = <<>>

\* CenterlineHandler(): no centerline, no route, no lane id
EmptyCenterlineHandler == [centerline |-> <<>>, route |-> <<>>, centerline_lane_ids |-> <<>>]

NoResponse == [message |-> "none"]

NodeIdle ==
  /\ node_pc = "not_started"
  /\ node_exception = "none"
  /\ requests = 0
  /\ map_loads = 0
  /\ map_bin_ptr_ = 0
  /\ original_map_ptr_ = 0
  /\ route_handler_ptr_ = 0
  /\ centerline_handler_ = EmptyCenterlineHandler
  /\ validations = 0
  /\ callback = [name |-> "none"]
  /\ response = NoResponse
  /\ connection_result = [called |-> FALSE]
  /\ saved_maps = <<>>

SingleIdle ==
  /\ single_main = "none"
  /\ single_pc = "not_started"
  /\ single_issues = <<>>
  /\ single_exit_code = -1

TurnIdle ==
  /\ turn_map = <<>>
  /\ turn_pc = "not_started"
  /\ polygon_next = 1
  /\ turn_issues = <<>>
  /\ turn_checked = <<>>
  /\ turn_exception = "none"

RestIdle == MidpointIdle /\ NodeIdle /\ SingleIdle /\ TurnIdle

MainIdle == SchedulerIdle /\ FoldIdle /\ FacingIdle

(***************************************************************************)
(* Helpers on sequences and sets.                                          *)
(***************************************************************************)
Range(s) == {s[i] : i \in DOMAIN s}

Perms(S) == {f \in [1..Cardinality(S) -> S] : \A i, j \in DOMAIN f : f[i] = f[j] => i = j}

RECURSIVE Flatten(_)
Flatten(ss) == IF ss = <<>> THEN <<>> ELSE Head(ss) \o Flatten(Tail(ss))

Max(S) == CHOOSE x \in S : \A y \in S : y <= x

(***************************************************************************)
(* The requirements document: a list of requirements, each with an id and  *)
(* a list of validator blocks; a block has a name and optional             *)
(* prerequisites, each with a name and an optional forgive_warnings flag.  *)
(* "passed" and "issues" are the fields the scheduler writes ("null" and   *)
(* the empty list stand for a field that is not there).                    *)
(***************************************************************************)
PrereqEntries(flags) == [name : PrereqNames, forgive_warnings : flags]

ValidatorBlock(n, ps) ==
  [name |-> n, prerequisites |-> ps, passed |-> "null", issues |-> <<>>]

\* the prerequisite entries of validator n, when entry i of the document
\* belongs to validator owners[i] (owners is non-decreasing)
PrereqsOf(n, owners, entries) ==
  LET idx == {i \in DOMAIN owners : owners[i] = n}
      lo == CHOOSE i \in idx : \A j \in idx : i <= j
  IN  IF idx = {} THEN <<>>
      ELSE [j \in 1..Cardinality(idx) |-> entries[lo + j - 1]]

\* the document with validators 1..split in the first requirement and the
\* others in the second one
Document(owners, entries, split) ==
  LET block(n) == ValidatorBlock(n, PrereqsOf(n, owners, entries))
      first == [id |-> 1, passed |-> "null",
                validators |-> [v \in 1..split |-> block(v)]]
      second == [id |-> 2, passed |-> "null",
                 validators |-> [v \in 1..(NumValidators - split) |-> block(split + v)]]
  IN  IF split = NumValidators THEN <<first>> ELSE <<first, second>>

SplitPoints == {NumValidators - 1, NumValidators}

\* the validator each of k prerequisite entries belongs to
Owners(k) == {o \in [1..k -> Names] : \A i, j \in 1..k : i <= j => o[i] <= o[j]}

\* all validator blocks of the document, in document order
AllBlocks(json) == Flatten([r \in DOMAIN json |-> json[r].validators])

\* find_validator_block: the place <<requirement, validator>> of the first
\* block with the name, <<>> when the code throws "Validator not found"
find_validator_block(json, validator_name) ==
  LET places == UNION {{<<r, v>> : v \in DOMAIN json[r].validators} : r \in DOMAIN json}
      found == {p \in places : json[p[1]].validators[p[2]].name = validator_name}
  IN  IF found = {} THEN <<>>
      ELSE CHOOSE p \in found :
             \A o \in found : p[1] < o[1] \/ (p[1] = o[1] /\ p[2] <= o[2])

(***************************************************************************)
(* parse_validators: one ValidatorInfo per validator name. A flag is       *)
(* stored only for the prerequisites that carry one (a later entry of the  *)
(* same name overwrites an earlier one); max_severity starts at NONE.      *)
(***************************************************************************)
ParseInfo(block) ==
  LET ps == block.prerequisites
      flagged == {i \in DOMAIN ps : ps[i].forgive_warnings # "absent"}
      last(n) == Max({i \in flagged : ps[i].name = n})
  IN  [prerequisites |-> [i \in DOMAIN ps |-> ps[i].name],
       forgive_warnings |->
         [n \in {ps[i].name : i \in flagged} |-> ps[last(n)].forgive_warnings = "true"],
       max_severity |-> NONE]

parse_validators(json) ==
  LET blocks == AllBlocks(json)
      last(n) == Max({i \in DOMAIN blocks : blocks[i].name = n})
  IN  [n \in {blocks[i].name : i \in DOMAIN blocks} |-> ParseInfo(blocks[last(n)])]

(***************************************************************************)
(* create_validation_queue, in the steps of its code. The iteration order  *)
(* of an unordered_map is not specified: every order is a possible one.    *)
(***************************************************************************)
Erase(f, k) == [x \in DOMAIN f \ {k} |-> f[x]]

\* lines 131-140: v is pushed to graph[prereq] once per listing of prereq,
\* in the order the validators are visited
Dependents(vs, order, prereq) ==
  LET times(v) == Cardinality({j \in DOMAIN vs[v].prerequisites :
                                 vs[v].prerequisites[j] = prereq})
  IN  Flatten([k \in DOMAIN order |-> [j \in 1..times(order[k]) |-> order[k]]])

\* mutant: only the prerequisites that are validators of the set are counted
InitialIndegree_ExistingOnly(vs, name) ==
  Cardinality({j \in DOMAIN vs[name].prerequisites :
                 vs[name].prerequisites[j] \in DOMAIN vs})

\* lines 133-138: the indegree counts every listing of a prerequisite
InitialIndegree(vs, name) == Len(vs[name].prerequisites)

\* mutant: the queue is seeded with every validator
ZeroIndegree_NoTest(indeg, order) == order

\* lines 144-149: the names found with indegree 0, in the order visited
ZeroIndegree(indeg, order) ==
  Flatten([k \in DOMAIN order |-> IF indeg[order[k]] = 0 THEN <<order[k]>> ELSE <<>>])

\* mutant: a dependent is pushed at every decrement of its indegree
RECURSIVE Relax_PushAlways(_, _)
Relax_PushAlways(neighbors, st) ==
  IF neighbors = <<>> THEN st
  ELSE LET n == Head(neighbors)
       IN  Relax_PushAlways(Tail(neighbors),
             [indegree |-> [st.indegree EXCEPT ![n] = @ - 1],
              q |-> Append(st.q, n),
              remaining |-> Erase(st.remaining, n)])

\* lines 160-166: the loop over the dependents of the validator popped
RECURSIVE Relax(_, _)
Relax(neighbors, st) ==
  IF neighbors = <<>> THEN st
  ELSE LET n == Head(neighbors)
           d == st.indegree[n] - 1
           st1 == IF d = 0
                  THEN [indegree |-> [st.indegree EXCEPT ![n] = d],
                        q |-> Append(st.q, n),
                        remaining |-> Erase(st.remaining, n)]
                  ELSE [st EXCEPT !.indegree[n] = d]
       IN  Relax(Tail(neighbors), st1)

(***************************************************************************)
(* The synthetic issues and the writes to a validator block.               *)
(***************************************************************************)
JsonIssue(severity, message) ==
  [severity |-> toString(severity), primitive |-> "primitive", id |-> 0,
   message |-> message]

\* mutant: the issues are attached, the passed flag is not written
SetBlock_IssuesOnly(json, place, passed, issues) ==
  [json EXCEPT ![place[1]].validators[place[2]] =
     [@ EXCEPT !.issues = issues]]

SetBlock(json, place, passed, issues) ==
  [json EXCEPT ![place[1]].validators[place[2]] =
     [@ EXCEPT !.passed = passed, !.issues = issues]]

SetPassed(json, place, passed) ==
  [json EXCEPT ![place[1]].validators[place[2]].passed = passed]

\* descript_unused_validators_to_json: [threw, json]
RECURSIVE descript_unused_validators_to_json(_, _)
descript_unused_validators_to_json(json, unused) ==
  IF unused = {} THEN [threw |-> "none", json |-> json]
  ELSE LET name == CHOOSE n \in unused : TRUE
           place == find_validator_block(json, name)
       IN  IF place = <<>> THEN [threw |-> "runtime_error", json |-> json]
           ELSE descript_unused_validators_to_json(
                  SetBlock(json, place, "false", <<JsonIssue(ERROR, MsgUnused)>>),
                  unused \ {name})

(***************************************************************************)
(* check_prerequisite_completion. The loop over the prerequisites stops at *)
(* the first one that blocks; std::unordered_map::at throws out_of_range   *)
(* for a key that is not in the map.                                       *)
(***************************************************************************)
\* mutant: the forgive_warnings flag is read the wrong way round
RECURSIVE PrerequisiteScan_FlagInverted(_, _, _)
PrerequisiteScan_FlagInverted(prereqs, info, vs) ==
  IF prereqs = <<>> THEN "complete"
  ELSE LET prereq == Head(prereqs)
       IN  IF prereq \notin DOMAIN vs THEN "out_of_range"
           ELSE IF vs[prereq].max_severity = ERROR THEN "incomplete"
           ELSE IF vs[prereq].max_severity = WARNING
                THEN IF prereq \notin DOMAIN info.forgive_warnings THEN "out_of_range"
                     ELSE IF info.forgive_warnings[prereq] THEN "incomplete"
                     ELSE PrerequisiteScan_FlagInverted(Tail(prereqs), info, vs)
           ELSE PrerequisiteScan_FlagInverted(Tail(prereqs), info, vs)

RECURSIVE PrerequisiteScan(_, _, _)
PrerequisiteScan(prereqs, info, vs) ==
  IF prereqs = <<>> THEN "complete"
  ELSE LET prereq == Head(prereqs)
       IN  IF prereq \notin DOMAIN vs THEN "out_of_range"
           ELSE IF vs[prereq].max_severity = ERROR THEN "incomplete"
           ELSE IF vs[prereq].max_severity = WARNING
                THEN IF prereq \notin DOMAIN info.forgive_warnings THEN "out_of_range"
                     ELSE IF ~info.forgive_warnings[prereq] THEN "incomplete"
                     ELSE PrerequisiteScan(Tail(prereqs), info, vs)
           ELSE PrerequisiteScan(Tail(prereqs), info, vs)

\* [threw, json, detected_issues]
check_prerequisite_completion(json, vs, target_validator_name) ==
  IF target_validator_name \notin DOMAIN vs
  THEN [threw |-> "out_of_range", json |-> json, detected_issues |-> <<>>]
  ELSE LET place == find_validator_block(json, target_validator_name)
           scan == PrerequisiteScan(vs[target_validator_name].prerequisites,
                                    vs[target_validator_name], vs)
       IN  IF place = <<>>
           THEN [threw |-> "runtime_error", json |-> json, detected_issues |-> <<>>]
           ELSE IF scan = "out_of_range"
           THEN [threw |-> "out_of_range", json |-> json, detected_issues |-> <<>>]
           ELSE IF scan = "incomplete"
           THEN [threw |-> "none",
                 json |-> SetBlock(json, place, "false", <<JsonIssue(ERROR, MsgBlocked)>>),
                 detected_issues |-> <<[checkName |-> target_validator_name,
                                        issues |-> <<ERROR>>]>>]
           ELSE [threw |-> "none", json |-> json, detected_issues |-> <<>>]

\* appendIssues(to, std::move(from)) moves the elements of from to the end
\* of to; from keeps its size. The value is from after the call.
appendIssues(from) == from

(***************************************************************************)
(* validateMap with checksFilter set to one validator name: no entry, or   *)
(* one entry with the issues the check found (severities, in order).       *)
(***************************************************************************)
IssueLists == UNION {[1..k -> IssueSeverities] : k \in 0..MaxIssues}

ValidateMapResults == {<<>>} \cup {<<[issues |-> l]>> : l \in IssueLists}

\* mutant: the severity of the issue at hand always replaces max_severity
RECURSIVE FoldSeverity_Last(_, _)
FoldSeverity_Last(issues, max_severity) ==
  IF issues = <<>> THEN max_severity
  ELSE FoldSeverity_Last(Tail(issues), Head(issues))

\* lines 384-389: the fold of the issues' severities into max_severity
RECURSIVE FoldSeverity(_, _)
FoldSeverity(issues, max_severity) ==
  IF issues = <<>> THEN max_severity
  ELSE FoldSeverity(Tail(issues),
                    IF Head(issues) < max_severity THEN Head(issues) ELSE max_severity)

\* DetectedIssues::warnings().size() + DetectedIssues::errors().size()
WarningsAndErrors(issues) ==
  Cardinality({i \in DOMAIN issues : issues[i] \in {WARNING, ERROR}})

(***************************************************************************)
(* summarize_validator_results: [threw, json, total_count]. Reading the    *)
(* boolean "passed" of a block that has none fails (nlohmann type_error);  *)
(* with unique validator names every block has one when the loop is over.  *)
(***************************************************************************)
CountSeverity(json, severity) ==
  LET blocks == AllBlocks(json)
      count(b) == Cardinality({i \in DOMAIN b.issues : b.issues[i].severity = toString(severity)})
      RECURSIVE sum(_)
      sum(k) == IF k = 0 THEN 0 ELSE count(blocks[k]) + sum(k - 1)
  IN  sum(Len(blocks))

\* mutant: the flags are combined with OR
is_requirement_passed_Any(requirement) ==
  \E v \in DOMAIN requirement.validators : requirement.validators[v].passed = "true"

\* lines 276-282: is_requirement_passed &= validator_passed
is_requirement_passed(requirement) ==
  \A v \in DOMAIN requirement.validators : requirement.validators[v].passed = "true"

summarize_validator_results(json) ==
  LET blocks == AllBlocks(json)
      warning_count == CountSeverity(json, WARNING)
      error_count == CountSeverity(json, ERROR)
  IN  IF \E i \in DOMAIN blocks : blocks[i].passed = "null"
      THEN [threw |-> "type_error", json |-> json, total_count |-> 0]
      ELSE [threw |-> "none",
            json |-> [r \in DOMAIN json |->
                       [json[r] EXCEPT !.passed =
                          IF is_requirement_passed(json[r]) THEN "true" ELSE "false"]],
            total_count |-> warning_count + error_count]

(***************************************************************************)
(* The process: main reads the document and calls                          *)
(* new_process_requirements.                                               *)
(***************************************************************************)
InitWith(max_entries, flags, splits) ==
  /\ pc = "parse"
  /\ \E k \in 0..max_entries : \E owners \in Owners(k) :
       \E entries \in [1..k -> PrereqEntries(flags)] : \E split \in splits :
         json_data = Document(owners, entries, split)
  /\ validators = <<>>
  /\ graph = [n \in PrereqNames |-> <<>>]
  /\ indegree = <<>>
  /\ q = <<>>
  /\ validation_queue = <<>>
  /\ remaining_validators = <<>>
  /\ next_validator = 1
  /\ validate_map_calls = <<>>
  /\ num_issues = 0
  /\ ret = 0
  /\ exit_code = -1
  /\ exception = "none"
  /\ FoldIdle
  /\ FacingIdle
  /\ RestIdle

\* line 342
ParseValidators ==
  /\ pc = "parse"
  /\ validators' = parse_validators(json_data)
  /\ pc' = "build"
  /\ UNCHANGED <<json_data, graph, indegree, q, validation_queue, remaining_validators,
                 next_validator, validate_map_calls, num_issues, ret, exit_code, exception>>
  /\ UNCHANGED other_vars

\* create_validation_queue, lines 131-140
BuildGraph ==
  /\ pc = "build"
  /\ \E order \in Perms(DOMAIN validators) :
       graph' = [p \in PrereqNames |-> Dependents(validators, order, p)]
  /\ indegree' = [n \in DOMAIN validators |-> InitialIndegree(validators, n)]
  /\ remaining_validators' = validators
  /\ pc' = "seed"
  /\ UNCHANGED <<json_data, validators, q, validation_queue, next_validator,
                 validate_map_calls, num_issues, ret, exit_code, exception>>
  /\ UNCHANGED other_vars

\* create_validation_queue, lines 143-149
SeedQueue ==
  /\ pc = "seed"
  /\ \E order \in Perms(DOMAIN indegree) :
       q' = ZeroIndegree(indegree, order)
  /\ remaining_validators' =
       [n \in {m \in DOMAIN remaining_validators : indegree[m] # 0} |-> remaining_validators[n]]
  /\ pc' = "sort"
  /\ UNCHANGED <<json_data, validators, graph, indegree, validation_queue, next_validator,
                 validate_map_calls, num_issues, ret, exit_code, exception>>
  /\ UNCHANGED other_vars

\* create_validation_queue, one turn of the loop of lines 152-167
TopologicalSortStep ==
  /\ pc = "sort"
  /\ q # <<>>
  /\ LET current_validator_name == Head(q)
         st == Relax(graph[current_validator_name],
                     [indegree |-> indegree, q |-> Tail(q),
                      remaining |-> remaining_validators])
     IN  /\ validation_queue' = Append(validation_queue, current_validator_name)
         /\ indegree' = st.indegree
         /\ q' = st.q
         /\ remaining_validators' = st.remaining
  /\ UNCHANGED <<pc, json_data, validators, graph, next_validator, validate_map_calls,
                 num_issues, ret, exit_code, exception>>
  /\ UNCHANGED other_vars

\* create_validation_queue, lines 169-173
ReturnValidationQueue ==
  /\ pc = "sort"
  /\ q = <<>>
  /\ remaining_validators' =
       [n \in DOMAIN remaining_validators |->
          [remaining_validators[n] EXCEPT !.max_severity = ERROR]]
  /\ pc' = "describe"
  /\ UNCHANGED <<json_data, validators, graph, indegree, q, validation_queue,
                 next_validator, validate_map_calls, num_issues, ret, exit_code, exception>>
  /\ UNCHANGED other_vars

\* lines 349-351
DescriptUnusedValidators ==
  /\ pc = "describe"
  /\ LET res == descript_unused_validators_to_json(json_data, DOMAIN remaining_validators)
     IN  IF res.threw # "none"
         THEN /\ pc' = "aborted"
              /\ exception' = res.threw
              /\ UNCHANGED json_data
         ELSE /\ pc' = "run"
              /\ json_data' = res.json
              /\ UNCHANGED exception
  /\ UNCHANGED <<validators, graph, indegree, q, validation_queue, remaining_validators,
                 next_validator, validate_map_calls, num_issues, ret, exit_code>>
  /\ UNCHANGED other_vars

\* one turn of the loop of lines 352-394
ProcessValidator ==
  /\ pc = "run"
  /\ next_validator <= Len(validation_queue)
  /\ LET validator_name == validation_queue[next_validator]
         chk == check_prerequisite_completion(json_data, validators, validator_name)
         prerequisite_failure_issues == appendIssues(chk.detected_issues)
         place == find_validator_block(json_data, validator_name)
     IN  IF chk.threw # "none"
         THEN /\ pc' = "aborted"
              /\ exception' = chk.threw
              /\ UNCHANGED <<json_data, validators, next_validator, validate_map_calls>>
         ELSE IF Len(prerequisite_failure_issues) > 0
         THEN /\ json_data' = chk.json
              /\ next_validator' = next_validator + 1
              /\ UNCHANGED <<pc, exception, validators, validate_map_calls>>
         ELSE \E temp_issues \in ValidateMapResults :
                /\ validate_map_calls' = Append(validate_map_calls, validator_name)
                /\ next_validator' = next_validator + 1
                /\ UNCHANGED <<pc, exception>>
                /\ IF Len(temp_issues) = 0
                   THEN /\ json_data' = SetPassed(json_data, place, "true")
                        /\ UNCHANGED validators
                   ELSE LET found == temp_issues[1].issues
                            passed == IF WarningsAndErrors(found) = 0
                                      THEN "true" ELSE "false"
                        IN  /\ json_data' =
                                 IF Len(found) > 0
                                 THEN SetBlock(json_data, place, passed,
                                        [i \in DOMAIN found |-> JsonIssue(found[i], MsgCheck)])
                                 ELSE SetPassed(json_data, place, passed)
                            /\ validators' =
                                 [validators EXCEPT ![validator_name].max_severity =
                                    FoldSeverity(found, @)]
  /\ UNCHANGED <<graph, indegree, q, validation_queue, remaining_validators,
                 num_issues, ret, exit_code>>
  /\ UNCHANGED other_vars

\* lines 396-406
SummarizeAndReturn ==
  /\ pc = "run"
  /\ next_validator > Len(validation_queue)
  /\ LET res == summarize_validator_results(json_data)
     IN  IF res.threw # "none"
         THEN /\ pc' = "aborted"
              /\ exception' = res.threw
              /\ UNCHANGED <<json_data, num_issues, ret>>
         ELSE /\ pc' = "returned"
              /\ json_data' = res.json
              /\ num_issues' = res.total_count
              /\ ret' = IF res.total_count = 0 THEN 0 ELSE 1
              /\ UNCHANGED exception
  /\ UNCHANGED <<validators, graph, indegree, q, validation_queue, remaining_validators,
                 next_validator, validate_map_calls, exit_code>>
  /\ UNCHANGED other_vars

\* main of main.cpp (lib/utils.cpp lines 538-542): the exit code is the
\* value new_process_requirements returns
main ==
  /\ pc = "returned"
  /\ exit_code' = ret
  /\ pc' = "exited"
  /\ UNCHANGED <<json_data, validators, graph, indegree, q, validation_queue,
                 remaining_validators, next_validator, validate_map_calls, num_issues,
                 ret, exception>>
  /\ UNCHANGED other_vars

\* main of src/unnamed/part_001 (lines 61-74): the value is dropped
main_part_001 ==
  /\ pc = "returned"
  /\ exit_code' = 0
  /\ pc' = "exited"
  /\ UNCHANGED <<json_data, validators, graph, indegree, q, validation_queue,
                 remaining_validators, next_validator, validate_map_calls, num_issues,
                 ret, exception>>
  /\ UNCHANGED other_vars

Init == InitWith(MaxPrereqEntries, ForgiveFlags, SplitPoints)

Next ==
  \/ ParseValidators
  \/ BuildGraph
  \/ SeedQueue
  \/ TopologicalSortStep
  \/ ReturnValidationQueue
  \/ DescriptUnusedValidators
  \/ ProcessValidator
  \/ SummarizeAndReturn
  \/ main
  \/ main_part_001

Spec == Init /\ [][Next]_vars

(***************************************************************************)
(* create_validation_queue alone, on documents with more prerequisites,    *)
(* none with a flag (create_validation_queue does not read the flags), in  *)
(* one requirement: the run stops when the execution order is returned.    *)
(***************************************************************************)
InitQueue == InitWith(MaxGraphEdges, {"absent"}, {NumValidators})

NextQueue ==
  \/ ParseValidators
  \/ BuildGraph
  \/ SeedQueue
  \/ TopologicalSortStep
  \/ ReturnValidationQueue

SpecQueue == InitQueue /\ [][NextQueue]_vars

(***************************************************************************)
(* The whole run, for what it eventually does, on the documents of         *)
(* SpecQueue (up to MaxGraphEdges prerequisite entries, so that a cycle,   *)
(* an absent name and a double listing meet in one document). The program  *)
(* is one thread that runs each statement after the one before it, so a    *)
(* step that can be taken is taken.                                        *)
(***************************************************************************)
InitLive == InitWith(MaxGraphEdges, {"absent"}, {NumValidators})

SpecLive == InitLive /\ [][Next]_vars /\ WF_vars(Next)

(***************************************************************************)
(* The loop of new_process_requirements over the issues of one executed    *)
(* validator (lines 376-390), turn by turn, on longer issue lists than the *)
(* whole run takes: max_severity starts from NONE (parse_validators).      *)
(***************************************************************************)
InitFold ==
  /\ SchedulerIdle
  /\ FacingIdle
  /\ RestIdle
  /\ \E k \in 0..MaxFoldIssues : \E l \in [1..k -> IssueSeverities] : fold_issues = l
  /\ fold_next = 1
  /\ fold_max_severity = NONE

\* one turn of the loop of lines 376-390
FoldIssue ==
  /\ fold_next <= Len(fold_issues)
  /\ fold_max_severity' = FoldSeverity(<<fold_issues[fold_next]>>, fold_max_severity)
  /\ fold_next' = fold_next + 1
  /\ UNCHANGED <<fold_issues, scheduler_vars, facing_vars, rest_vars>>

NextFold == FoldIssue

SpecFold == InitFold /\ [][NextFold]_vars

(***************************************************************************)
(* The traffic light facing validator (mapping.traffic_light.correct_      *)
(* facing). The repository holds two bodies of                             *)
(* TrafficLightFacingValidator::check_traffic_light_facing: the one of     *)
(* validators/traffic_light/traffic_light_facing.cpp, which judges a light *)
(* against the starting edge of the lanelets that refer to its regulatory  *)
(* element, and the one of src/unnamed/part_002, whose loop over the       *)
(* regulatory elements sets no flag. Both run here on the same maps.       *)
(***************************************************************************)
MsgDivergent == "Lanelets referring this traffic_light has several divergent starting points"
MsgNoLanelet == "Regulatory element of traffic light must be referred by at least one lanelet"
MsgNotReferred == "Refers of traffic light regulatory element must have type of traffic_light."
MsgWrong == "The linestring direction seems to be wrong."
MsgAmbiguous == "The linestring direction has been judged as both correct and wrong."
MsgNoStopLine == "Cannot find a corresponding stop line to this traffic light."
MsgOpposite == "The traffic light facing seems to be opposite."

\* lanelet::validation::Issue(severity, Primitive::LineString, id, message)
Issue(severity, id, message) ==
  [severity |-> severity, primitive |-> "LineString", id |-> id, message |-> message]

(***************************************************************************)
(* The map. A point is <<x, y, z>>; a linestring has an id, the attributes *)
(* type and subtype ("" for an attribute it does not have) and its points. *)
(* The scene is one road across which the stop line lies: the lane that    *)
(* leads north from the stop line and the lane beside it that leads south  *)
(* to it, LaneLength long and LaneWidth wide, and the lights above the far *)
(* end of the lanes, drawn from the left to the right of a driver who goes *)
(* north, or the other way round.                                          *)
(***************************************************************************)
LineString(id, type, subtype, points) ==
  [id |-> id, type |-> type, subtype |-> subtype, points |-> points]

\* lanelet::ConstLineString3d(): InvalId, no attribute, no point
EmptyLineString == LineString(0, "", "", <<>>)

LightChoices == {"left_to_right", "right_to_left", "red_green"}

TrafficLight(id, choice) ==
  LineString(id, "traffic_light",
             IF choice = "red_green" THEN "red_green" ELSE "red_yellow_green",
             IF choice = "right_to_left" THEN << <<4, 3, 0>>, <<0, 3, 0>> >>
             ELSE IF choice = "start_is_end" THEN << <<0, 3, 0>>, <<0, 3, 0>> >>
             ELSE << <<0, 3, 0>>, <<4, 3, 0>> >>)

StopLine == LineString(NumLights + 1, "stop_line", "", << <<0, 0, 0>>, <<4, 0, 0>> >>)

LaneletChoices == {"north", "south"}

Lanelet(id, choice, regulatoryElements) ==
  IF choice = "north"
  THEN [id |-> id, regulatoryElements |-> regulatoryElements,
        leftBound |-> << <<0, 0, 0>>, <<0, 3, 0>> >>,
        rightBound |-> << <<4, 0, 0>>, <<4, 3, 0>> >>]
  ELSE IF choice = "pinched"
  THEN [id |-> id, regulatoryElements |-> regulatoryElements,
        leftBound |-> << <<0, 0, 0>>, <<0, 3, 0>> >>,
        rightBound |-> << <<0, 0, 0>>, <<4, 3, 0>> >>]
  ELSE [id |-> id, regulatoryElements |-> regulatoryElements,
        leftBound |-> << <<4, 3, 0>>, <<4, 0, 0>> >>,
        rightBound |-> << <<0, 3, 0>>, <<0, 0, 0>> >>]

\* the lights a regulatory element refers to: some of the lights of the map
RefersChoices == (SUBSET (1..NumLights)) \ {{}}

RECURSIVE Ascending(_)
Ascending(S) ==
  IF S = {} THEN <<>>
  ELSE LET m == CHOOSE x \in S : \A y \in S : x <= y
       IN  <<m>> \o Ascending(S \ {m})

RegulatoryElement(id, subtype, refers, ref_line) ==
  [id |-> id, subtype |-> subtype, refers |-> refers, ref_line |-> ref_line]

\* a speed limit, or a traffic light element with or without a stop line
RegulatoryElementChoices ==
  {[subtype |-> "speed_limit", refers |-> {}, ref_line |-> <<>>]} \cup
  [subtype : {"traffic_light"}, refers : RefersChoices, ref_line : {<<>>, <<StopLine>>}]

\* the lanelets list no regulatory element or one
ReferenceChoices == {<<>>} \cup {<<r>> : r \in 1..NumRegElems}

LaneletMap(lights, reg_elems, lanelets) ==
  LET lineStrings == [i \in 1..NumLights |-> TrafficLight(i, lights[i])]
  IN  [lineStringLayer |-> Append(lineStrings, StopLine),
       regulatoryElementLayer |->
         [r \in 1..NumRegElems |->
            RegulatoryElement(r, reg_elems[r].subtype,
                              [k \in 1..Cardinality(reg_elems[r].refers) |->
                                 lineStrings[Ascending(reg_elems[r].refers)[k]]],
                              reg_elems[r].ref_line)],
       laneletLayer |->
         [l \in 1..NumLanelets |-> Lanelet(l, lanelets[l].choice, lanelets[l].refs)]]

(***************************************************************************)
(* Eigen::Vector3d on these points. The distances of the scene are whole   *)
(* numbers, so that norm() is exact.                                       *)
(***************************************************************************)
Sub(u, v) == <<u[1] - v[1], u[2] - v[2], u[3] - v[3]>>

Dot(u, v) == u[1] * v[1] + u[2] * v[2] + u[3] * v[3]

Norm(v) == CHOOSE n \in 0..Dot(v, v) : n * n = Dot(v, v)

Min2(a, b) == IF a <= b THEN a ELSE b

\* a.dot(b) / (a.norm() * b.norm()) as far as the comparisons with 0 read
\* it: 0.0 / 0.0 is NaN, which is neither above nor below 0
cosine(a, b) ==
  IF Norm(a) * Norm(b) = 0 THEN "nan"
  ELSE IF Dot(a, b) > 0 THEN "positive"
  ELSE IF Dot(a, b) < 0 THEN "negative"
  ELSE "zero"

\* lanelet::autoware::validation::linestring_to_vector3d: from the first
\* point of the linestring to its last
linestring_to_vector3d(linestring) ==
  Sub(linestring.points[Len(linestring.points)], linestring.points[1])

is_red_yellow_green_traffic_light(linestring) ==
  /\ linestring.type # ""
  /\ linestring.subtype # ""
  /\ linestring.type = "traffic_light"
  /\ linestring.subtype = "red_yellow_green"

\* the first RefLine of type stop_line, or an empty linestring
get_stop_line_from_reg_elem(reg_elem) ==
  LET found == {i \in DOMAIN reg_elem.ref_line :
                  /\ reg_elem.ref_line[i].type # ""
                  /\ reg_elem.ref_line[i].type = "stop_line"}
  IN  IF found = {} THEN EmptyLineString
      ELSE reg_elem.ref_line[CHOOSE i \in found : \A j \in found : i <= j]

get_starting_edge_from_lanelet(lanelet, reference) ==
  LET front_l == lanelet.leftBound[1]
      back_l == lanelet.leftBound[Len(lanelet.leftBound)]
      front_r == lanelet.rightBound[1]
      back_r == lanelet.rightBound[Len(lanelet.rightBound)]
      ref_1 == reference.points[1]
      ref_2 == reference.points[Len(reference.points)]
      norm_sum(vec1, vec2) == Norm(Sub(vec1, ref_1)) + Norm(Sub(vec2, ref_2))
      front_min == Min2(norm_sum(front_l, front_r), norm_sum(front_r, front_l))
      back_min == Min2(norm_sum(back_l, back_r), norm_sum(back_r, back_l))
  IN  LineString(reference.id, "", "",
                 IF front_min <= back_min THEN <<front_l, front_r>>
                 ELSE <<back_l, back_r>>)

collect_referring_lanelets(map, target_reg_elem_id) ==
  LET refers(lanelet) ==
        \E i \in DOMAIN lanelet.regulatoryElements :
          lanelet.regulatoryElements[i] = target_reg_elem_id
  IN  SelectSeq(map.laneletLayer, refers)

(***************************************************************************)
(* reference.front() and reference.back() of an empty linestring read the  *)
(* first element of an empty vector: the call ends the process, or goes on *)
(* with whatever points it finds there.                                    *)
(***************************************************************************)
UninitialisedPoints ==
  {<< <<0, 0, 0>>, <<4, 0, 0>> >>, << <<0, 3, 0>>, <<4, 3, 0>> >>}

\* lines 133 and 84: a local Issues object starts empty, whatever an
\* earlier call left in its own
FreshIssues_Static(left_over) == left_over

FreshIssues(left_over) == <<>>

\* lines 136-145 (traffic_light_facing.cpp), 87-96 (part_002): std::map
\* insert of {id, false} for every red_yellow_green light
SeedFlags(lineStringLayer) ==
  [id \in {lineStringLayer[i].id : i \in
             {j \in DOMAIN lineStringLayer :
                is_red_yellow_green_traffic_light(lineStringLayer[j])}} |-> FALSE]

\* std::map operator[] with an assignment
Assign(flags, id, value) ==
  [k \in DOMAIN flags \cup {id} |-> IF k = id THEN value ELSE flags[k]]

(***************************************************************************)
(* traffic_light_facing.cpp lines 157-207: the loop over the Refers of one *)
(* regulatory element; st is [issues, correct, wrong].                     *)
(***************************************************************************)
\* mutant: a judgement takes the opposite judgement back
RECURSIVE JudgeRefers_LastWins(_, _, _, _)
JudgeRefers_LastWins(refers, referring_lanelets, stop_line, st) ==
  IF refers = <<>> THEN st
  ELSE LET refers_linestring == Head(refers)
           id == refers_linestring.id
           pseudo_stop_line ==
             linestring_to_vector3d(
               get_starting_edge_from_lanelet(referring_lanelets[1], stop_line))
           divergent ==
             {i \in 2..Len(referring_lanelets) :
                cosine(pseudo_stop_line,
                       linestring_to_vector3d(
                         get_starting_edge_from_lanelet(referring_lanelets[i], stop_line)))
                  = "negative"}
           issues == st.issues \o
                       [k \in 1..Cardinality(divergent) |-> Issue(WARNING, id, MsgDivergent)]
           traffic_light == linestring_to_vector3d(refers_linestring)
           next ==
             IF ~is_red_yellow_green_traffic_light(refers_linestring) THEN st
             ELSE IF Len(referring_lanelets) > 0
             THEN IF cosine(pseudo_stop_line, traffic_light) = "positive"
                  THEN [issues |-> issues,
                        correct |-> Assign(st.correct, id, TRUE),
                        wrong |-> Assign(st.wrong, id, FALSE)]
                  ELSE [issues |-> issues,
                        correct |-> Assign(st.correct, id, FALSE),
                        wrong |-> Assign(st.wrong, id, TRUE)]
             ELSE [st EXCEPT !.issues = Append(@, Issue(WARNING, id, MsgNoLanelet))]
       IN  JudgeRefers_LastWins(Tail(refers), referring_lanelets, stop_line, next)

RECURSIVE JudgeRefers(_, _, _, _)
JudgeRefers(refers, referring_lanelets, stop_line, st) ==
  IF refers = <<>> THEN st
  ELSE LET refers_linestring == Head(refers)
           id == refers_linestring.id
           pseudo_stop_line ==
             linestring_to_vector3d(
               get_starting_edge_from_lanelet(referring_lanelets[1], stop_line))
           divergent ==
             {i \in 2..Len(referring_lanelets) :
                cosine(pseudo_stop_line,
                       linestring_to_vector3d(
                         get_starting_edge_from_lanelet(referring_lanelets[i], stop_line)))
                  = "negative"}
           issues == st.issues \o
                       [k \in 1..Cardinality(divergent) |-> Issue(WARNING, id, MsgDivergent)]
           traffic_light == linestring_to_vector3d(refers_linestring)
           next ==
             IF ~is_red_yellow_green_traffic_light(refers_linestring) THEN st
             ELSE IF Len(referring_lanelets) > 0
             THEN IF cosine(pseudo_stop_line, traffic_light) = "positive"
                  THEN [issues |-> issues,
                        correct |-> Assign(st.correct, id, TRUE),
                        wrong |-> st.wrong]
                  ELSE [issues |-> issues,
                        correct |-> st.correct,
                        wrong |-> Assign(st.wrong, id, TRUE)]
             ELSE [st EXCEPT !.issues = Append(@, Issue(WARNING, id, MsgNoLanelet))]
       IN  JudgeRefers(Tail(refers), referring_lanelets, stop_line, next)

\* the reads of the points of an empty stop line (lines 169, 173, 181)
ReadsEmptyStopLine(map, reg_elem) ==
  /\ get_stop_line_from_reg_elem(reg_elem).points = <<>>
  /\ Len(collect_referring_lanelets(map, reg_elem.id)) > 0
  /\ \E i \in DOMAIN reg_elem.refers :
       is_red_yellow_green_traffic_light(reg_elem.refers[i])

(***************************************************************************)
(* traffic_light_facing.cpp lines 216-232: the flags of every light, in    *)
(* the order of the ids, become at most one issue.                         *)
(***************************************************************************)
\* mutant: a light judged both correct and wrong is reported as wrong
FlagsToIssue_AmbiguousIsWrong(id, correct, wrong) ==
  IF ~correct /\ ~wrong THEN <<Issue(ERROR, id, MsgNotReferred)>>
  ELSE IF ~correct /\ wrong THEN <<Issue(ERROR, id, MsgWrong)>>
  ELSE IF correct /\ wrong THEN <<Issue(ERROR, id, MsgWrong)>>
  ELSE <<>>

FlagsToIssue(id, correct, wrong) ==
  IF ~correct /\ ~wrong THEN <<Issue(ERROR, id, MsgNotReferred)>>
  ELSE IF ~correct /\ wrong THEN <<Issue(ERROR, id, MsgWrong)>>
  ELSE IF correct /\ wrong THEN <<Issue(WARNING, id, MsgAmbiguous)>>
  ELSE <<>>

\* operator[] of a std::map<Id, bool>: false for a key it does not hold
Flag(flags, id) == IF id \in DOMAIN flags THEN flags[id] ELSE FALSE

DigestFlags(issues, correct, wrong) ==
  issues \o Flatten([k \in 1..Cardinality(DOMAIN correct) |->
                       LET id == Ascending(DOMAIN correct)[k]
                       IN  FlagsToIssue(id, Flag(correct, id), Flag(wrong, id))])

(***************************************************************************)
(* part_002 lines 123-136.                                                 *)
(***************************************************************************)
FlagsToIssue_part_002(traffic_light_id, has_stop_line, is_facing_correct) ==
  IF has_stop_line = FALSE THEN <<Issue(ERROR, traffic_light_id, MsgNoStopLine)>>
  ELSE IF is_facing_correct = FALSE THEN <<Issue(ERROR, traffic_light_id, MsgOpposite)>>
  ELSE <<>>

DigestFlags_part_002(issues, has_stop_line, is_facing_correct) ==
  issues \o Flatten([k \in 1..Cardinality(DOMAIN has_stop_line) |->
                       LET id == Ascending(DOMAIN has_stop_line)[k]
                       IN  FlagsToIssue_part_002(id, has_stop_line[id],
                                                 is_facing_correct[id])])

(***************************************************************************)
(* The validator is called on a map, and once more on the same map.        *)
(***************************************************************************)
InitFacing ==
  /\ SchedulerIdle
  /\ FoldIdle
  /\ RestIdle
  /\ \E lights \in [1..NumLights -> LightChoices] :
       \E reg_elems \in [1..NumRegElems -> RegulatoryElementChoices] :
         \E lanelets \in [1..NumLanelets -> [choice : LaneletChoices, refs : ReferenceChoices]] :
           lanelet_map = LaneletMap(lights, reg_elems, lanelets)
  /\ impl \in {"traffic_light_facing.cpp", "part_002"}
  /\ facing_pc = "seed"
  /\ invocation = 1
  /\ reg_elem_next = 1
  /\ tl_has_been_judged_as_correct = <<>>
  /\ tl_has_been_judged_as_wrong = <<>>
  /\ tl_has_corresponding_stop_line = <<>>
  /\ tl_is_facing_correct = <<>>
  /\ facing_issues = <<>>
  /\ first_issues = <<>>

\* traffic_light_facing.cpp lines 133-145
SeedFlagMaps ==
  /\ impl = "traffic_light_facing.cpp"
  /\ facing_pc = "seed"
  /\ facing_issues' = FreshIssues(facing_issues)
  /\ tl_has_been_judged_as_correct' = SeedFlags(lanelet_map.lineStringLayer)
  /\ tl_has_been_judged_as_wrong' = SeedFlags(lanelet_map.lineStringLayer)
  /\ reg_elem_next' = 1
  /\ facing_pc' = "scan"
  /\ UNCHANGED <<lanelet_map, impl, invocation, tl_has_corresponding_stop_line,
                 tl_is_facing_correct, first_issues, scheduler_vars, fold_vars, rest_vars>>

\* traffic_light_facing.cpp, one turn of the loop of lines 147-208
VisitRegulatoryElement ==
  /\ impl = "traffic_light_facing.cpp"
  /\ facing_pc = "scan"
  /\ reg_elem_next <= Len(lanelet_map.regulatoryElementLayer)
  /\ LET reg_elem == lanelet_map.regulatoryElementLayer[reg_elem_next]
         stop_line == get_stop_line_from_reg_elem(reg_elem)
         referring_lanelets == collect_referring_lanelets(lanelet_map, reg_elem.id)
         st == [issues |-> facing_issues,
                correct |-> tl_has_been_judged_as_correct,
                wrong |-> tl_has_been_judged_as_wrong]
         Goes(reference) ==
           LET res == JudgeRefers(reg_elem.refers, referring_lanelets, reference, st)
           IN  /\ facing_issues' = res.issues
               /\ tl_has_been_judged_as_correct' = res.correct
               /\ tl_has_been_judged_as_wrong' = res.wrong
               /\ reg_elem_next' = reg_elem_next + 1
               /\ UNCHANGED facing_pc
     IN  IF reg_elem.subtype # "traffic_light"
         THEN /\ reg_elem_next' = reg_elem_next + 1
              /\ UNCHANGED <<facing_pc, facing_issues, tl_has_been_judged_as_correct,
                             tl_has_been_judged_as_wrong>>
         ELSE IF ReadsEmptyStopLine(lanelet_map, reg_elem)
         THEN \/ /\ facing_pc' = "crashed"
                 /\ UNCHANGED <<reg_elem_next, facing_issues, tl_has_been_judged_as_correct,
                                tl_has_been_judged_as_wrong>>
              \/ \E points \in UninitialisedPoints :
                   Goes([stop_line EXCEPT !.points = points])
         ELSE Goes(stop_line)
  /\ UNCHANGED <<lanelet_map, impl, invocation, tl_has_corresponding_stop_line,
                 tl_is_facing_correct, first_issues, scheduler_vars, fold_vars, rest_vars>>

\* traffic_light_facing.cpp lines 216-234
DigestAndReturn ==
  /\ impl = "traffic_light_facing.cpp"
  /\ facing_pc = "scan"
  /\ reg_elem_next > Len(lanelet_map.regulatoryElementLayer)
  /\ facing_issues' = DigestFlags(facing_issues, tl_has_been_judged_as_correct,
                                  tl_has_been_judged_as_wrong)
  /\ facing_pc' = "returned"
  /\ UNCHANGED <<lanelet_map, impl, invocation, reg_elem_next,
                 tl_has_been_judged_as_correct, tl_has_been_judged_as_wrong,
                 tl_has_corresponding_stop_line, tl_is_facing_correct, first_issues,
                 scheduler_vars, fold_vars, rest_vars>>

\* part_002 lines 84-96
SeedFlagMaps_part_002 ==
  /\ impl = "part_002"
  /\ facing_pc = "seed"
  /\ facing_issues' = FreshIssues(facing_issues)
  /\ tl_has_corresponding_stop_line' = SeedFlags(lanelet_map.lineStringLayer)
  /\ tl_is_facing_correct' = SeedFlags(lanelet_map.lineStringLayer)
  /\ reg_elem_next' = 1
  /\ facing_pc' = "scan"
  /\ UNCHANGED <<lanelet_map, impl, invocation, tl_has_been_judged_as_correct,
                 tl_has_been_judged_as_wrong, first_issues, scheduler_vars, fold_vars, rest_vars>>

\* part_002, one turn of the loop of lines 101-118: the stop line is looked
\* up and the Refers are listed, and no flag is written
VisitRegulatoryElement_part_002 ==
  /\ impl = "part_002"
  /\ facing_pc = "scan"
  /\ reg_elem_next <= Len(lanelet_map.regulatoryElementLayer)
  /\ reg_elem_next' = reg_elem_next + 1
  /\ UNCHANGED <<lanelet_map, impl, facing_pc, invocation,
                 tl_has_been_judged_as_correct, tl_has_been_judged_as_wrong,
                 tl_has_corresponding_stop_line, tl_is_facing_correct,
                 facing_issues, first_issues, scheduler_vars, fold_vars, rest_vars>>

\* part_002 lines 120-138
DigestAndReturn_part_002 ==
  /\ impl = "part_002"
  /\ facing_pc = "scan"
  /\ reg_elem_next > Len(lanelet_map.regulatoryElementLayer)
  /\ facing_issues' = DigestFlags_part_002(facing_issues, tl_has_corresponding_stop_line,
                                           tl_is_facing_correct)
  /\ facing_pc' = "returned"
  /\ UNCHANGED <<lanelet_map, impl, invocation, reg_elem_next,
                 tl_has_been_judged_as_correct, tl_has_been_judged_as_wrong,
                 tl_has_corresponding_stop_line, tl_is_facing_correct, first_issues,
                 scheduler_vars, fold_vars, rest_vars>>

\* TrafficLightFacingValidator::operator() once more on the same map; the
\* objects of the call before are gone, what they held lies where it lay
ValidateAgain ==
  /\ facing_pc = "returned"
  /\ invocation = 1
  /\ first_issues' = facing_issues
  /\ invocation' = 2
  /\ facing_pc' = "seed"
  /\ UNCHANGED <<lanelet_map, impl, reg_elem_next, tl_has_been_judged_as_correct,
                 tl_has_been_judged_as_wrong, tl_has_corresponding_stop_line,
                 tl_is_facing_correct, facing_issues, scheduler_vars, fold_vars, rest_vars>>

NextFacing ==
  \/ SeedFlagMaps
  \/ VisitRegulatoryElement
  \/ DigestAndReturn
  \/ SeedFlagMaps_part_002
  \/ VisitRegulatoryElement_part_002
  \/ DigestAndReturn_part_002
  \/ ValidateAgain

SpecFacing == InitFacing /\ [][NextFacing]_vars

(***************************************************************************)
(* The same calls on maps with degenerate geometry: a light whose first    *)
(* point is its last ("start_is_end"), and a lanelet whose bounds start at *)
(* one point ("pinched"), so that its starting edge has no length.         *)
(***************************************************************************)
ZeroLengthLightChoices == {"left_to_right", "start_is_end"}

ZeroLengthLaneletChoices == {"north", "pinched"}

InitZeroLength ==
  /\ SchedulerIdle
  /\ FoldIdle
  /\ RestIdle
  /\ \E lights \in [1..NumLights -> ZeroLengthLightChoices] :
       \E reg_elems \in [1..NumRegElems -> RegulatoryElementChoices] :
         \E lanelets \in [1..NumLanelets ->
                             [choice : ZeroLengthLaneletChoices, refs : ReferenceChoices]] :
           lanelet_map = LaneletMap(lights, reg_elems, lanelets)
  /\ impl \in {"traffic_light_facing.cpp", "part_002"}
  /\ facing_pc = "seed"
  /\ invocation = 1
  /\ reg_elem_next = 1
  /\ tl_has_been_judged_as_correct = <<>>
  /\ tl_has_been_judged_as_wrong = <<>>
  /\ tl_has_corresponding_stop_line = <<>>
  /\ tl_is_facing_correct = <<>>
  /\ facing_issues = <<>>
  /\ first_issues = <<>>

SpecZeroLength == InitZeroLength /\ [][NextFacing]_vars

(***************************************************************************)
(* lanelet::autoware::validation::get_linestring_midpoint_2d (lib/utils.cpp *)
(* lines 28-44). Coordinates are doubles; the model counts them in halves  *)
(* of the map's unit, which the division by 2.0 of whole coordinates never *)
(* leaves, so a coordinate c of the map is the number 2 * c here.          *)
(***************************************************************************)
\* points of the linestrings given to the function
MaxPoints == 3
\* their x and y lie in -MaxCoordinate..MaxCoordinate
MaxCoordinate == 1

Coordinates == (0 - MaxCoordinate)..MaxCoordinate

\* the double that holds the whole number c
Double(c) == 2 * c

\* a / 2.0 for a double a that holds a whole number
Halved(a) == a \div 2

MsgMidpoint(id) ==
  <<"LineString with ID ", id, " must have at least two points to calculate the midpoint.">>

\* mutant: the mean of all the points
get_linestring_midpoint_2d_Centroid(linestring) ==
  IF Len(linestring.points) < 2
  THEN [thrown |-> "std::runtime_error", what |-> MsgMidpoint(linestring.id)]
  ELSE LET n == Len(linestring.points)
           sum(c) == IF n = 2 THEN linestring.points[1][c] + linestring.points[2][c]
                     ELSE linestring.points[1][c] + linestring.points[2][c]
                            + linestring.points[3][c]
       IN  [id |-> 0, x |-> Double(sum(1)) \div n, y |-> Double(sum(2)) \div n]

get_linestring_midpoint_2d(linestring) ==
  IF Len(linestring.points) < 2
  THEN [thrown |-> "std::runtime_error", what |-> MsgMidpoint(linestring.id)]
  ELSE LET first_point == linestring.points[1]
           last_point == linestring.points[Len(linestring.points)]
           mid_x == Halved(Double(first_point[1]) + Double(last_point[1]))
           mid_y == Halved(Double(first_point[2]) + Double(last_point[2]))
       IN  [id |-> 0, x |-> mid_x, y |-> mid_y]

InitMidpoint ==
  /\ MainIdle
  /\ NodeIdle
  /\ SingleIdle
  /\ TurnIdle
  /\ \E n \in 0..MaxPoints :
       \E points \in [1..n -> Coordinates \X Coordinates \X {0}] :
         midpoint_linestring = LineString(1, "traffic_light", "red_yellow_green", points)
  /\ midpoint_pc = "call"
  /\ midpoint_result = <<>>

\* one call of the function: it returns a point or throws
CallMidpoint ==
  /\ midpoint_pc = "call"
  /\ LET res == get_linestring_midpoint_2d(midpoint_linestring)
     IN  /\ midpoint_result' = res
         /\ midpoint_pc' = IF "thrown" \in DOMAIN res THEN "threw" ELSE "returned"
  /\ UNCHANGED <<midpoint_linestring, main_vars, node_vars, single_vars, turn_vars>>

NextMidpoint == CallMidpoint

SpecMidpoint == InitMidpoint /\ [][NextMidpoint]_vars

(***************************************************************************)
(* StaticCenterlineGeneratorNode (static_centerline_generator_node.cpp):   *)
(* the node after its construction, and the callbacks of its services and  *)
(* subscriptions, which the executor runs one at a time. A loaded map is   *)
(* known by the number of its load; nullptr is 0. In every map the         *)
(* lanelets 1..NumRouteLanelets lie one after the other, and from a        *)
(* lanelet one can drive on to every lanelet with a higher id. A point of  *)
(* a centerline is known by the set of lanelets it lies inside             *)
(* (lanelet::geometry::inside).                                            *)
(***************************************************************************)
\* callbacks one run of the node handles
MaxRequests == 3
\* lanelets of a loaded map
NumRouteLanelets == 3
\* lanelet ids of a requested route
MaxRoute == 2
\* points of a planned centerline
MaxCenterline == 2

RouteLanelets == 1..NumRouteLanelets

\* RouteHandler::getNextLanelets
getNextLanelets(lanelet) == {next \in RouteLanelets : next > lanelet}

Routes == UNION {[1..n -> RouteLanelets] : n \in 0..MaxRoute}

\* a point lies in no lanelet, in one, or where two lanelets meet
PointChoices ==
  {{}} \cup {{l} : l \in RouteLanelets}
       \cup {{l, l + 1} : l \in 1..(NumRouteLanelets - 1)}

Centerlines == UNION {[1..n -> PointChoices] : n \in 0..MaxCenterline}

\* lanelet::geometry::inside(lanelet, point)
inside(lanelet, point) == lanelet \in point

(***************************************************************************)
(* check_lanelet_connection, lines 136-154. route_lanelets.size() - 1 is   *)
(* a size_t: for an empty route it is SIZE_MAX, the loop is entered and    *)
(* route_lanelets.at(0) throws. i counts from 0 as in the code.            *)
(***************************************************************************)
RECURSIVE ConnectionLoop(_, _, _)
ConnectionLoop(route_lanelets, i, unconnected_lane_ids) ==
  IF Len(route_lanelets) # 0 /\ i >= Len(route_lanelets) - 1
  THEN [called |-> TRUE, thrown |-> "none", unconnected_lane_ids |-> unconnected_lane_ids]
  ELSE IF i >= Len(route_lanelets)
  THEN [called |-> TRUE, thrown |-> "std::out_of_range", unconnected_lane_ids |-> <<>>]
  ELSE LET is_connected == route_lanelets[i + 2] \in getNextLanelets(route_lanelets[i + 1])
       IN  ConnectionLoop(route_lanelets, i + 1,
                          IF ~is_connected
                          THEN Append(unconnected_lane_ids, route_lanelets[i + 1])
                          ELSE unconnected_lane_ids)

check_lanelet_connection(route_lanelets) == ConnectionLoop(route_lanelets, 0, <<>>)

(***************************************************************************)
(* CenterlineHandler: the centerline with its route, and the lane id of    *)
(* every point. The selected centerline is the whole centerline.           *)
(***************************************************************************)
CenterlineHandler(centerline, route) ==
  [centerline |-> centerline, route |-> route, centerline_lane_ids |-> <<>>]

get_selected_centerline(handler) == handler.centerline

clear_centerline_lane_ids(handler) == [handler EXCEPT !.centerline_lane_ids = <<>>]

add_centerline_lane_id(handler, lane_id) ==
  [handler EXCEPT !.centerline_lane_ids = Append(@, lane_id)]

\* utils::get_lanelets_from_route: the lanelets of the route's segments
get_lanelets_from_route(route) == route

(***************************************************************************)
(* connect_centerline_to_lanelet, lines 643-715. Indices count from 1.     *)
(***************************************************************************)
\* lines 655-664
centerline_front_lanelet_idx(route_lanelets, centerline) ==
  LET found == {i \in DOMAIN route_lanelets : inside(route_lanelets[i], centerline[1])}
  IN  IF found = {} THEN 0 ELSE CHOOSE i \in found : \A j \in found : i <= j

\* lines 670-707
RECURSIVE ConnectLoop(_, _, _, _, _, _)
ConnectLoop(handler, route_lanelets, front_idx, lanelet_idx, centerline_idx, was_once) ==
  IF lanelet_idx > Len(route_lanelets) THEN handler
  ELSE LET lanelet == route_lanelets[lanelet_idx]
           is_inside == inside(lanelet, handler.centerline[centerline_idx])
           was_once_inside_lanelet == was_once \/ is_inside
           is_target_lanelet ==
             IF front_idx = 0 /\ ~was_once_inside_lanelet THEN TRUE ELSE is_inside
       IN  IF ~is_target_lanelet
           THEN ConnectLoop(handler, route_lanelets, front_idx, lanelet_idx + 1,
                            centerline_idx, was_once_inside_lanelet)
           ELSE IF centerline_idx = Len(handler.centerline)
           THEN add_centerline_lane_id(handler, lanelet)
           ELSE ConnectLoop(add_centerline_lane_id(handler, lanelet), route_lanelets,
                            front_idx, lanelet_idx, centerline_idx + 1,
                            was_once_inside_lanelet)

connect_centerline_to_lanelet(handler) ==
  LET cleared == clear_centerline_lane_ids(handler)
      centerline == get_selected_centerline(cleared)
      route_lanelets == get_lanelets_from_route(cleared.route)
      front_idx == centerline_front_lanelet_idx(route_lanelets, centerline)
  IN  IF centerline = <<>> THEN cleared
      ELSE ConnectLoop(cleared, route_lanelets, front_idx,
                       IF front_idx # 0 THEN front_idx ELSE 1, 1, FALSE)

\* validate_centerline, lines 717-900: centerline_lane_ids.at(i) of line 775
\* for every point of the centerline
validate_centerline(handler) ==
  IF \E i \in DOMAIN get_selected_centerline(handler) :
       i > Len(handler.centerline_lane_ids)
  THEN "std::out_of_range"
  ELSE "none"

(***************************************************************************)
(* on_plan_path, lines 556-641, for a route of the request and the points  *)
(* the optimisation gives for it.                                          *)
(***************************************************************************)
PlanPathOutcome(message, unconnected_lane_ids, handler, validated, thrown, connection) ==
  [message |-> message, unconnected_lane_ids |-> unconnected_lane_ids,
   handler |-> handler, validated |-> validated, thrown |-> thrown,
   connection |-> connection]

\* mutant: the centerline is stored before the result is checked
on_plan_path_StoreFirst(route_handler, handler, route_lane_ids, optimized_traj_points) ==
  LET connection == check_lanelet_connection(route_lane_ids)
      stored == CenterlineHandler(optimized_traj_points, route_lane_ids)
      connected == connect_centerline_to_lanelet(stored)
  IN  IF route_handler = 0
      THEN PlanPathOutcome("MapNotFound", <<>>, handler, FALSE, "none", [called |-> FALSE])
      ELSE IF connection.thrown # "none"
      THEN PlanPathOutcome("", <<>>, handler, FALSE, connection.thrown, connection)
      ELSE IF connection.unconnected_lane_ids # <<>>
      THEN PlanPathOutcome("LaneletsNotConnected", connection.unconnected_lane_ids,
                           handler, FALSE, "none", connection)
      ELSE IF optimized_traj_points = <<>>
      THEN PlanPathOutcome("PathNotFound", <<>>, stored, FALSE, "none", connection)
      ELSE IF validate_centerline(connected) # "none"
      THEN PlanPathOutcome("", <<>>, connected, FALSE, validate_centerline(connected),
                           connection)
      ELSE PlanPathOutcome("", <<>>, connected, TRUE, "none", connection)

on_plan_path(route_handler, handler, route_lane_ids, optimized_traj_points) ==
  LET connection == check_lanelet_connection(route_lane_ids)
      stored == CenterlineHandler(optimized_traj_points, route_lane_ids)
      connected == connect_centerline_to_lanelet(stored)
  IN  IF route_handler = 0
      THEN PlanPathOutcome("MapNotFound", <<>>, handler, FALSE, "none", [called |-> FALSE])
      ELSE IF connection.thrown # "none"
      THEN PlanPathOutcome("", <<>>, handler, FALSE, connection.thrown, connection)
      ELSE IF connection.unconnected_lane_ids # <<>>
      THEN PlanPathOutcome("LaneletsNotConnected", connection.unconnected_lane_ids,
                           handler, FALSE, "none", connection)
      ELSE IF optimized_traj_points = <<>>
      THEN PlanPathOutcome("PathNotFound", <<>>, handler, FALSE, "none", connection)
      ELSE IF validate_centerline(connected) # "none"
      THEN PlanPathOutcome("", <<>>, connected, FALSE, validate_centerline(connected),
                           connection)
      ELSE PlanPathOutcome("", <<>>, connected, TRUE, "none", connection)

\* the node after its constructor (lines 215-312): no map, an empty handler
InitNode ==
  /\ MainIdle
  /\ MidpointIdle
  /\ SingleIdle
  /\ TurnIdle
  /\ node_pc = "spinning"
  /\ node_exception = "none"
  /\ requests = 0
  /\ map_loads = 0
  /\ map_bin_ptr_ = 0
  /\ original_map_ptr_ = 0
  /\ route_handler_ptr_ = 0
  /\ centerline_handler_ = EmptyCenterlineHandler
  /\ validations = 0
  /\ callback = [name |-> "none"]
  /\ response = NoResponse
  /\ connection_result = [called |-> FALSE]
  /\ saved_maps = <<>>

CanServe == node_pc = "spinning" /\ requests < MaxRequests

\* on_load_map with a map the loader accepts (lines 434-453, 382-432)
OnLoadMap ==
  /\ CanServe
  /\ requests' = requests + 1
  /\ callback' = [name |-> "on_load_map", loaded |-> TRUE]
  /\ map_loads' = map_loads + 1
  /\ map_bin_ptr_' = map_loads + 1
  /\ original_map_ptr_' = map_loads + 1
  /\ route_handler_ptr_' = map_loads + 1
  /\ response' = [message |-> ""]
  /\ UNCHANGED <<node_pc, node_exception, centerline_handler_, validations,
                 connection_result, saved_maps, main_vars, midpoint_vars, single_vars, turn_vars>>

\* on_load_map with a map for which Lanelet2MapLoaderNode::load_map gives
\* no map: lines 398-400 and 419-422, then 448-452
OnLoadMapFailed ==
  /\ CanServe
  /\ requests' = requests + 1
  /\ callback' = [name |-> "on_load_map", loaded |-> FALSE]
  /\ map_bin_ptr_' = 0
  /\ response' = [message |-> "InvalidMapFormat"]
  /\ UNCHANGED <<node_pc, node_exception, map_loads, original_map_ptr_,
                 route_handler_ptr_, centerline_handler_, validations,
                 connection_result, saved_maps, main_vars, midpoint_vars, single_vars, turn_vars>>

\* on_plan_route, lines 523-554; the planner finds a route or none
OnPlanRoute ==
  /\ CanServe
  /\ requests' = requests + 1
  /\ callback' = [name |-> "on_plan_route"]
  /\ IF map_bin_ptr_ = 0 \/ route_handler_ptr_ = 0
     THEN response' = [message |-> "MapNotFound"]
     ELSE \E lane_ids \in Routes :
            response' = IF lane_ids = <<>> THEN [message |-> "RouteNotFound"]
                        ELSE [message |-> "", lane_ids |-> lane_ids]
  /\ UNCHANGED <<node_pc, node_exception, map_loads, map_bin_ptr_, original_map_ptr_,
                 route_handler_ptr_, centerline_handler_, validations,
                 connection_result, saved_maps, main_vars, midpoint_vars, single_vars, turn_vars>>

\* route_lane_ids.front() and back() of lines 571-572 for a request without
\* lane ids read the first element of an empty vector: the read ends the
\* process, or the call goes on with what it found
ReadsEmptyRoute(route_handler, route_lane_ids) ==
  route_handler # 0 /\ route_lane_ids = <<>>

\* on_plan_path, lines 556-641
OnPlanPath ==
  /\ CanServe
  /\ requests' = requests + 1
  /\ \E route_lane_ids \in Routes : \E optimized_traj_points \in Centerlines :
       LET out == on_plan_path(route_handler_ptr_, centerline_handler_, route_lane_ids,
                               optimized_traj_points)
       IN  \/ /\ ReadsEmptyRoute(route_handler_ptr_, route_lane_ids)
              /\ callback' = [name |-> "on_plan_path", route |-> route_lane_ids]
              /\ node_pc' = "crashed"
              /\ node_exception' = "SIGSEGV"
              /\ response' = NoResponse
              /\ UNCHANGED <<centerline_handler_, connection_result, validations>>
           \/ /\ callback' = [name |-> "on_plan_path", route |-> route_lane_ids]
              /\ centerline_handler_' = out.handler
              /\ connection_result' =
                   IF out.connection.called
                   THEN [called |-> TRUE, route_lanelets |-> route_lane_ids,
                         thrown |-> out.connection.thrown,
                         unconnected_lane_ids |-> out.connection.unconnected_lane_ids]
                   ELSE connection_result
              /\ validations' = IF out.validated THEN validations + 1 ELSE validations
              /\ IF out.thrown # "none"
                 THEN /\ node_pc' = "crashed"
                      /\ node_exception' = out.thrown
                      /\ response' = NoResponse
                 ELSE /\ response' = [message |-> out.message,
                                      unconnected_lane_ids |-> out.unconnected_lane_ids]
                      /\ UNCHANGED <<node_pc, node_exception>>
  /\ UNCHANGED <<map_loads, map_bin_ptr_, original_map_ptr_, route_handler_ptr_,
                 saved_maps, main_vars, midpoint_vars, single_vars, turn_vars>>

\* the callback of sub_validate_, lines 270-275
OnValidate ==
  /\ CanServe
  /\ requests' = requests + 1
  /\ callback' = [name |-> "validate"]
  /\ LET connected == connect_centerline_to_lanelet(centerline_handler_)
     IN  /\ centerline_handler_' = connected
         /\ IF validate_centerline(connected) # "none"
            THEN /\ node_pc' = "crashed"
                 /\ node_exception' = validate_centerline(connected)
                 /\ UNCHANGED validations
            ELSE /\ validations' = validations + 1
                 /\ UNCHANGED <<node_pc, node_exception>>
  /\ UNCHANGED <<map_loads, map_bin_ptr_, original_map_ptr_, route_handler_ptr_,
                 response, connection_result, saved_maps, main_vars, midpoint_vars, single_vars, turn_vars>>

\* the callback of sub_save_map_, lines 262-269, and save_map, lines 902-934
OnSaveMap ==
  /\ CanServe
  /\ requests' = requests + 1
  /\ callback' = [name |-> "save_map"]
  /\ saved_maps' = IF get_selected_centerline(centerline_handler_) # <<>>
                      /\ route_handler_ptr_ # 0
                   THEN Append(saved_maps, original_map_ptr_)
                   ELSE saved_maps
  /\ UNCHANGED <<node_pc, node_exception, map_loads, map_bin_ptr_, original_map_ptr_,
                 route_handler_ptr_, centerline_handler_, validations, response,
                 connection_result, main_vars, midpoint_vars, single_vars, turn_vars>>

NextNode ==
  \/ OnLoadMap
  \/ OnLoadMapFailed
  \/ OnPlanRoute
  \/ OnPlanPath
  \/ OnValidate
  \/ OnSaveMap

SpecNode == InitNode /\ [][NextNode]_vars

(***************************************************************************)
(* main without a requirements file: one call of validateMap on the map,   *)
(* whose issues are printed (lib/utils.cpp lines 543-547, part_001 lines   *)
(* 70-74).                                                                 *)
(***************************************************************************)
\* checks that report issues in one call of validateMap
MaxChecks == 2
\* issues one such check reports
MaxCheckIssues == 2

\* lanelet::validation::DetectedIssues
DetectedIssuesChoices ==
  {[checkName |-> n, issues |-> l] :
     n \in Names, l \in UNION {[1..k -> IssueSeverities] : k \in 1..MaxCheckIssues}}

\* static_cast<int>(bool)
BoolToInt(b) == IF b THEN 1 ELSE 0

InitSinglePass ==
  /\ MainIdle
  /\ MidpointIdle
  /\ NodeIdle
  /\ TurnIdle
  /\ single_main \in {"main.cpp", "part_001"}
  /\ single_pc = "validate"
  /\ single_issues = <<>>
  /\ single_exit_code = -1

\* auto issues = validateMap(meta_config); printAllIssues(issues);
ValidateMapOnce ==
  /\ single_pc = "validate"
  /\ \E k \in 0..MaxChecks : \E issues \in [1..k -> DetectedIssuesChoices] :
       single_issues' = issues
  /\ single_pc' = "return"
  /\ UNCHANGED <<single_main, single_exit_code, main_vars, midpoint_vars, node_vars, turn_vars>>

\* lib/utils.cpp line 546: return static_cast<int>(issues.empty());
main_single_pass ==
  /\ single_main = "main.cpp"
  /\ single_pc = "return"
  /\ single_exit_code' = BoolToInt(single_issues = <<>>)
  /\ single_pc' = "exited"
  /\ UNCHANGED <<single_main, single_issues, main_vars, midpoint_vars, node_vars, turn_vars>>

\* part_001 line 75: return 0;
main_part_001_single_pass ==
  /\ single_main = "part_001"
  /\ single_pc = "return"
  /\ single_exit_code' = 0
  /\ single_pc' = "exited"
  /\ UNCHANGED <<single_main, single_issues, main_vars, midpoint_vars, node_vars, turn_vars>>

NextSinglePass ==
  \/ ValidateMapOnce
  \/ main_single_pass
  \/ main_part_001_single_pass

SpecSinglePass == InitSinglePass /\ [][NextSinglePass]_vars

(***************************************************************************)
(* TurnDirectionTaggingValidator (validators/intersection/                 *)
(* turn_direction_tagging.cpp). A polygon has an id, the attribute type    *)
(* ("" when it has none) and its points <<x, y>>; a lanelet has an id, the *)
(* attribute turn_direction ("" when it has none) and the points of its    *)
(* two bounds. Every polygon is the square between <<0, 0>> and <<2, 2>>;  *)
(* a lanelet lies inside it, half inside it, across it with its points on  *)
(* both sides outside, or far from it.                                     *)
(***************************************************************************)
\* polygons and lanelets of the map
NumPolygons == 2
NumTurnLanelets == 2

PolygonTypes == {"intersection_area", "crosswalk", ""}

Polygon(id, type) ==
  [id |-> id, type |-> type, points |-> << <<0, 0>>, <<2, 0>>, <<2, 2>>, <<0, 2>> >>]

TurnDirections == {"left", "straight", "right", "u_turn", ""}

TurnLaneletPlaces == {"inside", "half_inside", "across", "far"}

TurnLanelet(id, place, turn_direction) ==
  LET from == CASE place = "inside" -> 0
                [] place = "half_inside" -> 1
                [] place = "across" -> -1
                [] OTHER -> 5
      to == CASE place = "inside" -> 2
              [] place = "half_inside" -> 3
              [] place = "across" -> 3
              [] OTHER -> 7
  IN  [id |-> id, turn_direction |-> turn_direction,
       leftBound2d |-> << <<from, 2>>, <<to, 2>> >>,
       rightBound2d |-> << <<from, 0>>, <<to, 0>> >>]

\* lanelet::geometry::boundingBox2d of a set of points
boundingBox2d(points) ==
  LET xs == {points[i][1] : i \in DOMAIN points}
      ys == {points[i][2] : i \in DOMAIN points}
      least(S) == CHOOSE a \in S : \A b \in S : a <= b
  IN  [min |-> <<least(xs), least(ys)>>, max |-> <<Max(xs), Max(ys)>>]

\* BoundingBox2d::contains(point): the borders belong to the box
contains(bbox, point) ==
  /\ bbox.min[1] <= point[1] /\ point[1] <= bbox.max[1]
  /\ bbox.min[2] <= point[2] /\ point[2] <= bbox.max[2]

\* laneletLayer.search(bbox): the lanelets whose own box meets the box
search(laneletLayer, bbox) ==
  LET meets(lane) ==
        LET own == boundingBox2d(lane.leftBound2d \o lane.rightBound2d)
        IN  /\ own.min[1] <= bbox.max[1] /\ bbox.min[1] <= own.max[1]
            /\ own.min[2] <= bbox.max[2] /\ bbox.min[2] <= own.max[2]
  IN  SelectSeq(laneletLayer, meets)

\* lines 89-103
lanelet_is_within_bbox_2d(bbox, lanelet) ==
  IF \E i \in DOMAIN lanelet.leftBound2d : contains(bbox, lanelet.leftBound2d[i])
  THEN FALSE
  ELSE IF \E i \in DOMAIN lanelet.rightBound2d : contains(bbox, lanelet.rightBound2d[i])
  THEN FALSE
  ELSE TRUE

direction_set == {"left", "straight", "right"}

\* append_issue_code_prefix(name, code, message)
append_issue_code_prefix(name, code, message) ==
  [name |-> name, code |-> code, message |-> message]

TurnIssue(id, code, message) ==
  [severity |-> ERROR, primitive |-> "Lanelet", id |-> id,
   message |-> append_issue_code_prefix("mapping.intersection.turn_direction_tagging",
                                        code, message)]

(***************************************************************************)
(* Lines 63-83, the loop over the lanelets near one polygon; st is         *)
(* [issues, checked, thrown]. lane.attribute("turn_direction") of line 76  *)
(* throws lanelet::NoSuchAttributeError for a lanelet without the tag.     *)
(***************************************************************************)
RECURSIVE CheckLanes(_, _, _)
CheckLanes(nearby_lanelets, bbox2d, st) ==
  IF nearby_lanelets = <<>> \/ st.thrown # "none" THEN st
  ELSE LET lane == Head(nearby_lanelets)
           missing == <<TurnIssue(lane.id, 1, "This lanelet is missing a turn_direction tag")>>
           invalid == <<TurnIssue(lane.id, 2, <<"Invalid turn_directin tag is found (",
                                                lane.turn_direction, ")">>)>>
           next ==
             IF ~lanelet_is_within_bbox_2d(bbox2d, lane) THEN st
             ELSE IF lane.turn_direction = ""
             THEN [issues |-> st.issues \o missing,
                   checked |-> Append(st.checked, lane.id),
                   thrown |-> "lanelet::NoSuchAttributeError"]
             ELSE IF lane.turn_direction \notin direction_set
             THEN [issues |-> st.issues \o invalid,
                   checked |-> Append(st.checked, lane.id),
                   thrown |-> "none"]
             ELSE [st EXCEPT !.checked = Append(@, lane.id)]
       IN  CheckLanes(Tail(nearby_lanelets), bbox2d, next)

InitTurn ==
  /\ MainIdle
  /\ MidpointIdle
  /\ NodeIdle
  /\ SingleIdle
  /\ \E types \in [1..NumPolygons -> PolygonTypes] :
       \E lanes \in [1..NumTurnLanelets ->
                       [place : TurnLaneletPlaces, turn_direction : TurnDirections]] :
         turn_map =
           [polygonLayer |-> [p \in 1..NumPolygons |-> Polygon(p, types[p])],
            laneletLayer |-> [l \in 1..NumTurnLanelets |->
                                TurnLanelet(l, lanes[l].place, lanes[l].turn_direction)]]
  /\ turn_pc = "scan"
  /\ polygon_next = 1
  /\ turn_issues = <<>>
  /\ turn_checked = <<>>
  /\ turn_exception = "none"

\* one turn of the loop of lines 52-84
VisitPolygon ==
  /\ turn_pc = "scan"
  /\ polygon_next <= Len(turn_map.polygonLayer)
  /\ LET polygon3d == turn_map.polygonLayer[polygon_next]
         bbox2d == boundingBox2d(polygon3d.points)
         nearby_lanelets == search(turn_map.laneletLayer, bbox2d)
         res == CheckLanes(nearby_lanelets, bbox2d,
                           [issues |-> turn_issues, checked |-> turn_checked,
                            thrown |-> "none"])
     IN  IF polygon3d.type = "" \/ polygon3d.type # "intersection_area"
         THEN /\ polygon_next' = polygon_next + 1
              /\ UNCHANGED <<turn_pc, turn_issues, turn_checked, turn_exception>>
         ELSE /\ turn_issues' = res.issues
              /\ turn_checked' = res.checked
              /\ turn_exception' = res.thrown
              /\ IF res.thrown # "none"
                 THEN turn_pc' = "threw" /\ UNCHANGED polygon_next
                 ELSE polygon_next' = polygon_next + 1 /\ UNCHANGED turn_pc
  /\ UNCHANGED <<turn_map, main_vars, midpoint_vars, node_vars, single_vars>>

\* line 86
ReturnTurnIssues ==
  /\ turn_pc = "scan"
  /\ polygon_next > Len(turn_map.polygonLayer)
  /\ turn_pc' = "returned"
  /\ UNCHANGED <<turn_map, polygon_next, turn_issues, turn_checked, turn_exception,
                 main_vars, midpoint_vars, node_vars, single_vars>>

NextTurn ==
  \/ VisitPolygon
  \/ ReturnTurnIssues

SpecTurn == InitTurn /\ [][NextTurn]_vars

(***************************************************************************)
(* Notions the properties are stated with.                                 *)
(***************************************************************************)
\* the names validator n lists as prerequisites
PrereqSet(n) == Range(validators[n].prerequisites)

\* the names n depends on, directly or through a chain of prerequisites
RECURSIVE Closure(_, _)
Closure(S, k) ==
  IF k = 0 THEN S
  ELSE Closure(S \cup UNION {PrereqSet(m) : m \in S \cap DOMAIN validators}, k - 1)

TransPrereqs(n) == Closure(PrereqSet(n), NumValidators)

OnCycle(n) == n \in TransPrereqs(n)
Absent(p) == p \notin DOMAIN validators

Acyclic == \A n \in DOMAIN validators : ~OnCycle(n)
FullyResolvable == \A n \in DOMAIN validators : \A p \in PrereqSet(n) : ~Absent(p)

\* create_validation_queue has returned
QueueReturned == pc \in {"describe", "run", "returned", "exited", "aborted"}

InOrder(n) == n \in Range(validation_queue)
Position(n) == CHOOSE i \in DOMAIN validation_queue : validation_queue[i] = n
Unresolvable(n) == n \in DOMAIN remaining_validators

(***************************************************************************)
(* C1: for an acyclic prerequisite graph that names only validators of the *)
(* set, the execution order returned holds every validator exactly once,   *)
(* each strictly after all of its prerequisites, and the unresolvable set  *)
(* is empty.                                                               *)
(***************************************************************************)
C1_TopologicalOrder ==
  (QueueReturned /\ Acyclic /\ FullyResolvable) =>
     /\ Len(validation_queue) = Cardinality(DOMAIN validators)
     /\ Range(validation_queue) = DOMAIN validators
     /\ \A n \in DOMAIN validators : \A p \in PrereqSet(n) : Position(p) < Position(n)
     /\ DOMAIN remaining_validators = {}

\* an order was returned for a validator with two prerequisites, one of
\* which has a prerequisite itself
C1_Witness ==
  /\ QueueReturned /\ Acyclic /\ FullyResolvable
  /\ \E a, b, c \in DOMAIN validators :
       /\ Cardinality({a, b, c}) = NumValidators
       /\ PrereqSet(c) = {a, b}
       /\ PrereqSet(b) = {a}
       /\ validation_queue = <<a, b, c>>

(***************************************************************************)
(* C7: every member of a prerequisite cycle (of any length, a validator    *)
(* that lists itself included) is classified unresolvable and is not in    *)
(* the execution order.                                                    *)
(***************************************************************************)
C7_CycleUnresolvable ==
  QueueReturned =>
    \A n \in DOMAIN validators :
      OnCycle(n) => (Unresolvable(n) /\ ~InOrder(n)
                     /\ remaining_validators[n].max_severity = ERROR)

\* a cycle through all the validators was classified
C7_Witness ==
  /\ QueueReturned
  /\ \A n \in DOMAIN validators : OnCycle(n) /\ Cardinality(TransPrereqs(n)) = NumValidators
  /\ DOMAIN remaining_validators = Names
  /\ validation_queue = <<>>

(***************************************************************************)
(* C8 as stated: a validator is unresolvable iff it is on a cycle or       *)
(* depends, directly or through a chain, on a name absent from the set;    *)
(* every other validator is in the execution order, and every prerequisite *)
(* of a validator in the order is in the set and in the order.             *)
(***************************************************************************)
DependsOnAbsent(n) == \E p \in TransPrereqs(n) : Absent(p)
DependsOnCycle(n) == \E p \in TransPrereqs(n) : ~Absent(p) /\ OnCycle(p)

OrderClosed ==
  /\ \A n \in DOMAIN validators : Unresolvable(n) <=> ~InOrder(n)
  /\ \A n \in Range(validation_queue) :
       \A p \in PrereqSet(n) : ~Absent(p) /\ InOrder(p)

C8_Original ==
  QueueReturned =>
    /\ \A n \in DOMAIN validators :
         Unresolvable(n) <=> (OnCycle(n) \/ DependsOnAbsent(n))
    /\ OrderClosed

(***************************************************************************)
(* C8 amended: a validator is unresolvable iff it is on a cycle or         *)
(* depends, directly or through a chain, on a member of a cycle or on a    *)
(* name absent from the set; the rest as stated.                           *)
(***************************************************************************)
C8_UnresolvableIff ==
  QueueReturned =>
    /\ \A n \in DOMAIN validators :
         Unresolvable(n) <=> (OnCycle(n) \/ DependsOnCycle(n) \/ DependsOnAbsent(n))
    /\ OrderClosed

\* a validator that is on no cycle and depends on no absent name, but on a
\* validator that lists itself, was classified unresolvable
C8_Witness ==
  /\ QueueReturned
  /\ \E n \in DOMAIN validators :
       /\ Unresolvable(n)
       /\ ~OnCycle(n) /\ ~DependsOnAbsent(n) /\ DependsOnCycle(n)
  /\ \E m \in DOMAIN validators : InOrder(m)

(***************************************************************************)
(* Notions about the loop over the execution order.                        *)
(***************************************************************************)
BlockOf(n) ==
  LET place == find_validator_block(json_data, n)
  IN  json_data[place[1]].validators[place[2]]

\* the loop has finished its turn for n
Processed(n) ==
  \E i \in DOMAIN validation_queue : i < next_validator /\ validation_queue[i] = n

\* the loop has taken n up: its turn is finished, or the process ended in it
Reached(n) ==
  \/ Processed(n)
  \/ /\ pc = "aborted"
     /\ next_validator \in DOMAIN validation_queue
     /\ validation_queue[next_validator] = n

\* validateMap was called with checksFilter = n
Executed(n) == n \in Range(validate_map_calls)

Blocked(n) ==
  /\ ~Executed(n)
  /\ BlockOf(n).passed = "false"
  /\ BlockOf(n).issues = <<JsonIssue(ERROR, MsgBlocked)>>

MarkedUnused(n) ==
  /\ ~Executed(n)
  /\ BlockOf(n).passed = "false"
  /\ BlockOf(n).issues = <<JsonIssue(ERROR, MsgUnused)>>

MaxSeverity(p) == validators[p].max_severity

\* every entry of q's block that names p carries the flag (and there is one)
ListsWith(v, p, flag) ==
  LET entries == {e \in Range(BlockOf(v).prerequisites) : e.name = p}
  IN  entries # {} /\ \A e \in entries : e.forgive_warnings = flag

\* prerequisite p of q finished without an issue that counts against q
Satisfied(v, p) ==
  \/ MaxSeverity(p) \in {NONE, INFO}
  \/ MaxSeverity(p) = WARNING /\ ListsWith(v, p, "true")

Finished == pc \in {"returned", "exited"}

(***************************************************************************)
(* C2: when prerequisite P finished with max_severity Warning and the      *)
(* other prerequisites of Q are satisfied, then once the loop has taken Q  *)
(* up, Q is executed if it lists P with forgive_warnings = true, and is    *)
(* blocked (not executed, passed = false, the single Error issue           *)
(* "Prerequisites didn't pass") if it lists P with forgive_warnings =      *)
(* false.                                                                  *)
(***************************************************************************)
C2_ForgiveWarnings ==
  \A d \in DOMAIN validators : \A p \in DOMAIN validators :
    ( /\ Reached(d)
      /\ p \in PrereqSet(d)
      /\ MaxSeverity(p) = WARNING
      /\ \A o \in PrereqSet(d) \ {p} : Satisfied(d, o) )
    => /\ ListsWith(d, p, "true") => (Executed(d) /\ ~Blocked(d))
       /\ ListsWith(d, p, "false") => Blocked(d)

\* one prerequisite with a Warning, a dependent that forgives it and was
\* executed, and a dependent that does not and was blocked
C2_Witness ==
  /\ pc = "exited"
  /\ \E p, q1, q2 \in DOMAIN validators :
       /\ MaxSeverity(p) = WARNING
       /\ ListsWith(q1, p, "true") /\ Executed(q1)
       /\ ListsWith(q2, p, "false") /\ Blocked(q2)

(***************************************************************************)
(* C3: a resolvable validator one of whose prerequisites has max_severity  *)
(* Error is blocked when the loop takes it up, whatever the flag of that   *)
(* prerequisite, and validateMap is not called for it.                     *)
(***************************************************************************)
C3_ErrorBlocks ==
  \A d \in DOMAIN validators :
    (Reached(d) /\ \E p \in PrereqSet(d) : MaxSeverity(p) = ERROR) => Blocked(d)

(***************************************************************************)
(* C4: a validator whose prerequisite was blocked is blocked too, and      *)
(* validateMap is not called for it (the chain A <- B <- C).               *)
(***************************************************************************)
C4_BlockedChain ==
  \A c \in DOMAIN validators : \A b \in DOMAIN validators :
    (Processed(c) /\ b \in PrereqSet(c) /\ Blocked(b)) => Blocked(c)

(***************************************************************************)
(* C5: the scheduling pass never ends by an exception, also when a         *)
(* prerequisite has no forgive_warnings flag; every unresolvable or        *)
(* blocked validator ends with passed = false and exactly one Error issue. *)
(***************************************************************************)
C5_NeverThrows ==
  /\ pc # "aborted"
  /\ exception = "none"
  /\ Finished =>
       \A n \in DOMAIN validators :
         ~Executed(n) =>
           /\ BlockOf(n).passed = "false"
           /\ Len(BlockOf(n).issues) = 1
           /\ BlockOf(n).issues[1].severity = toString(ERROR)

(***************************************************************************)
(* C6: a validator that lists a prerequisite name absent from the set is   *)
(* never put in the queue or in the execution order, is never executed,    *)
(* and after the unresolvable validators are written to the document it    *)
(* has passed = false and exactly the one Error issue "Prerequisites don't *)
(* exist OR they are making a loop.".                                      *)
(***************************************************************************)
C6_MissingPrerequisite ==
  \A n \in DOMAIN validators :
    (\E p \in PrereqSet(n) : Absent(p)) =>
      /\ ~InOrder(n)
      /\ n \notin Range(q)
      /\ ~Executed(n)
      /\ pc \in {"run", "returned", "exited", "aborted"} => MarkedUnused(n)

\* the first validator of the document lists an absent name, the run went
\* to its end and the other validators were executed
C6_Witness ==
  /\ pc = "exited"
  /\ \E p \in PrereqSet(1) : Absent(p)
  /\ MarkedUnused(1)
  /\ \A n \in DOMAIN validators \ {1} : Executed(n)

(***************************************************************************)
(* C9: after the pass, the passed flag of every requirement is the AND of  *)
(* the passed flags of its validators; a requirement with a validator that *)
(* failed, was blocked or is unresolvable is reported failed.              *)
(***************************************************************************)
C9_RequirementAnd ==
  Finished =>
    \A r \in DOMAIN json_data :
      LET members == json_data[r].validators
      IN  /\ json_data[r].passed \in {"true", "false"}
          /\ json_data[r].passed = "true" <=>
               \A v \in DOMAIN members : members[v].passed = "true"
          /\ (\E v \in DOMAIN members : ~Executed(members[v].name)) =>
               json_data[r].passed = "false"

\* two requirements: the first failed with one validator passed and one
\* failed, the second passed
C9_Witness ==
  /\ pc = "exited"
  /\ Len(json_data) > 1
  /\ json_data[1].passed = "false"
  /\ \E v, w \in DOMAIN json_data[1].validators :
       /\ json_data[1].validators[v].passed = "true"
       /\ json_data[1].validators[w].passed = "false"
  /\ json_data[Len(json_data)].passed = "true"

(***************************************************************************)
(* C10: in requirements-file mode the exit code is 0 if and only if no     *)
(* issue at all was recorded in the document, and 1 otherwise.             *)
(***************************************************************************)
TotalIssuesRecorded ==
  LET blocks == AllBlocks(json_data)
      RECURSIVE sum(_)
      sum(k) == IF k = 0 THEN 0 ELSE Len(blocks[k].issues) + sum(k - 1)
  IN  sum(Len(blocks))

C10_ExitCode ==
  pc = "exited" =>
    exit_code = (IF TotalIssuesRecorded = 0 THEN 0 ELSE 1)

(***************************************************************************)
(* C11: for an executed validator, max_severity is at every turn of the    *)
(* loop over the issues the most severe severity among the issues folded   *)
(* in so far (None < Info < Warning < Error), so it is None when the check *)
(* emitted no issue and the most severe of all of them when the loop is    *)
(* over; and no turn moves it to a less severe value, whatever the order   *)
(* of the issues.                                                          *)
(***************************************************************************)
Rank(severity) ==
  CASE severity = NONE -> 0
    [] severity = INFO -> 1
    [] severity = WARNING -> 2
    [] severity = ERROR -> 3

MostSevere(issues) ==
  LET S == Range(issues) \cup {NONE}
  IN  CHOOSE s \in S : \A t \in S : Rank(t) <= Rank(s)

FoldedSoFar == SubSeq(fold_issues, 1, fold_next - 1)

FoldOver == fold_next > Len(fold_issues)

C11_MaxSeverityFold ==
  /\ [](fold_max_severity = MostSevere(FoldedSoFar))
  /\ [][Rank(fold_max_severity') >= Rank(fold_max_severity)]_vars

\* a less severe issue follows the most severe one, and the loop is over
C11_Witness ==
  /\ FoldOver
  /\ Len(fold_issues) >= 3
  /\ fold_issues[1] = WARNING
  /\ fold_issues[2] = ERROR
  /\ fold_issues[3] = INFO
  /\ fold_max_severity = ERROR

(***************************************************************************)
(* C12: after the scheduling pass every validator has exactly one outcome  *)
(* among unresolvable (left over by create_validation_queue), blocked (its *)
(* block holds the "Prerequisites didn't pass" issue) and executed         *)
(* (validateMap was called for it); every validator block carries a passed *)
(* flag, and it is written once: no block has one before the unresolvable  *)
(* validators are marked, the block of the validator the loop takes up has *)
(* none yet, and the blocks of the unresolvable and of the processed       *)
(* validators have one from then on; and every validator that depends on   *)
(* no absent name and on no cycle has been taken up by the loop, whatever  *)
(* unresolvable or blocked validators there are.                           *)
(***************************************************************************)
Outcomes(n) ==
  {o \in {"unresolvable", "blocked", "executed"} :
     \/ o = "unresolvable" /\ Unresolvable(n)
     \/ o = "blocked" /\ JsonIssue(ERROR, MsgBlocked) \in Range(BlockOf(n).issues)
     \/ o = "executed" /\ Executed(n)}

Resolvable(n) == ~DependsOnAbsent(n) /\ ~DependsOnCycle(n)

HasPassedFlag(n) == BlockOf(n).passed \in {"true", "false"}

C12_OneOutcome ==
  /\ pc \in {"parse", "build", "seed", "sort", "describe"} =>
       \A i \in DOMAIN AllBlocks(json_data) : AllBlocks(json_data)[i].passed = "null"
  /\ (pc = "run" /\ next_validator \in DOMAIN validation_queue) =>
       BlockOf(validation_queue[next_validator]).passed = "null"
  /\ pc \in {"run", "returned", "exited"} =>
       \A n \in DOMAIN validators : (Unresolvable(n) \/ Processed(n)) => HasPassedFlag(n)
  /\ Finished =>
       \A n \in DOMAIN validators :
         /\ Cardinality(Outcomes(n)) = 1
         /\ HasPassedFlag(n)
         /\ Resolvable(n) => Processed(n)

\* one validator of each outcome, the blocked one taken up by the loop
C12_Witness ==
  /\ Finished
  /\ \E a, b, c \in DOMAIN validators :
       /\ Outcomes(a) = {"unresolvable"}
       /\ Outcomes(b) = {"blocked"} /\ Processed(b)
       /\ Outcomes(c) = {"executed"}

(***************************************************************************)
(* C13: on every requirements document (validators on a cycle, absent      *)
(* prerequisite names and a prerequisite listed twice included) the pass   *)
(* comes to an end: the topological-sort loop is left for the marking of   *)
(* the unresolvable validators, the process ends (it exits, or the         *)
(* exception of C5 ends it); no validator is ever twice among the names    *)
(* that were or are enqueued, and validateMap is called at most once for   *)
(* each validator.                                                         *)
(***************************************************************************)
NoDuplicates(s) == \A i, j \in DOMAIN s : s[i] = s[j] => i = j

Terminated == pc \in {"exited", "aborted"}

C13_Terminates ==
  /\ (pc = "sort") ~> (pc = "describe")
  /\ <>Terminated
  /\ [](NoDuplicates(validation_queue \o q) /\ NoDuplicates(validate_map_calls))

ListedTwice(n) ==
  \E i, j \in DOMAIN validators[n].prerequisites :
    i # j /\ validators[n].prerequisites[i] = validators[n].prerequisites[j]

\* the process has exited after a pass over a document with a validator on
\* a cycle, one that lists an absent name twice and one that was executed
C13_Witness ==
  /\ pc = "exited"
  /\ \E a, b, c \in DOMAIN validators :
       /\ OnCycle(a)
       /\ ListedTwice(b) /\ Absent(validators[b].prerequisites[1])
       /\ Executed(c)

(***************************************************************************)
(* Notions about one pass of the facing validator.                         *)
(***************************************************************************)
Cpp == impl = "traffic_light_facing.cpp"

Part002 == impl = "part_002"

FacingReturned == facing_pc = "returned"

\* the red_yellow_green traffic lights of the map
Lights ==
  {ls \in Range(lanelet_map.lineStringLayer) : is_red_yellow_green_traffic_light(ls)}

\* the regulatory elements of subtype traffic_light that refer to the light
ReferringElements(light) ==
  {r \in Range(lanelet_map.regulatoryElementLayer) :
     r.subtype = "traffic_light" /\ light \in Range(r.refers)}

HasStopLine(r) == \E i \in DOMAIN r.ref_line : r.ref_line[i].type = "stop_line"

LaneletsOf(r) ==
  {l \in Range(lanelet_map.laneletLayer) : r.id \in Range(l.regulatoryElements)}

HasIssue(severity, id, message) == Issue(severity, id, message) \in Range(facing_issues)

IssuesAbout(id) ==
  LET about(issue) == issue.id = id
  IN  SelectSeq(facing_issues, about)

\* the issues the flags of a light are turned into when the pass ends
TerminalIssues(id) ==
  LET terminal(issue) ==
        issue.id = id /\ issue.message \in {MsgNotReferred, MsgWrong, MsgAmbiguous}
  IN  SelectSeq(facing_issues, terminal)

(***************************************************************************)
(* C14: when a pass of traffic_light_facing.cpp has ended, the flag maps   *)
(* hold exactly the red_yellow_green lights, and the terminal issues of    *)
(* each light are decided by its two flags: neither set, one Error (the    *)
(* light is not referred); only wrong set, one Error (wrong direction);    *)
(* both set, one Warning (ambiguous); only correct set, none.              *)
(***************************************************************************)
C14_TerminalIssue ==
  (Cpp /\ FacingReturned) =>
    /\ DOMAIN tl_has_been_judged_as_correct = {l.id : l \in Lights}
    /\ DOMAIN tl_has_been_judged_as_wrong = {l.id : l \in Lights}
    /\ \A l \in Lights :
         LET correct == tl_has_been_judged_as_correct[l.id]
             wrong == tl_has_been_judged_as_wrong[l.id]
         IN  /\ (~correct /\ ~wrong) =>
                  TerminalIssues(l.id) = <<Issue(ERROR, l.id, MsgNotReferred)>>
             /\ (~correct /\ wrong) =>
                  TerminalIssues(l.id) = <<Issue(ERROR, l.id, MsgWrong)>>
             /\ (correct /\ wrong) =>
                  TerminalIssues(l.id) = <<Issue(WARNING, l.id, MsgAmbiguous)>>
             /\ (correct /\ ~wrong) => TerminalIssues(l.id) = <<>>

\* one light with both flags and its Warning, another with only the wrong
\* flag and its Error
C14_Witness ==
  /\ Cpp
  /\ FacingReturned
  /\ \E a, b \in Lights :
       /\ tl_has_been_judged_as_correct[a.id] /\ tl_has_been_judged_as_wrong[a.id]
       /\ HasIssue(WARNING, a.id, MsgAmbiguous)
       /\ ~tl_has_been_judged_as_correct[b.id] /\ tl_has_been_judged_as_wrong[b.id]
       /\ HasIssue(ERROR, b.id, MsgWrong)

(***************************************************************************)
(* C15: for a red_yellow_green light referred by a traffic_light           *)
(* regulatory element that has a stop line, with a the vector from the     *)
(* light's first point to its last and b the vector from the midpoint of   *)
(* the stop line to the midpoint of the light: when the sine of the angle  *)
(* between a and b is within sin(10 degrees) = 0.1736 of -1 the pass of    *)
(* part_002 reports the Error "The traffic light facing seems to be        *)
(* opposite." for the light, and when it is within 0.1736 of +1 the pass   *)
(* reports no issue for the light.                                         *)
(***************************************************************************)
\* a and twice b, in the plane
LightVector(light) == linestring_to_vector3d(light)

TwiceStopLineToLight(light, stop_line) ==
  LET l1 == light.points[1]
      l2 == light.points[Len(light.points)]
      s1 == stop_line.points[1]
      s2 == stop_line.points[Len(stop_line.points)]
  IN  <<(l1[1] + l2[1]) - (s1[1] + s2[1]), (l1[2] + l2[2]) - (s1[2] + s2[2]), 0>>

Cross2d(a, b) == a[1] * b[2] - a[2] * b[1]

\* sine >= 1 - 0.1736, and sine <= -1 + 0.1736
SineNearPlusOne(light, stop_line) ==
  LET a == LightVector(light)
      b == TwiceStopLineToLight(light, stop_line)
  IN  /\ Norm(a) * Norm(b) > 0
      /\ 10000 * Cross2d(a, b) >= 8264 * Norm(a) * Norm(b)

SineNearMinusOne(light, stop_line) ==
  LET a == LightVector(light)
      b == TwiceStopLineToLight(light, stop_line)
  IN  /\ Norm(a) * Norm(b) > 0
      /\ 10000 * Cross2d(a, b) <= (-8264) * Norm(a) * Norm(b)

C15_SineClassification ==
  (Part002 /\ FacingReturned) =>
    \A l \in Lights : \A r \in ReferringElements(l) :
      HasStopLine(r) =>
        LET stop_line == get_stop_line_from_reg_elem(r)
        IN  /\ SineNearMinusOne(l, stop_line) => HasIssue(ERROR, l.id, MsgOpposite)
            /\ SineNearPlusOne(l, stop_line) => IssuesAbout(l.id) = <<>>

(***************************************************************************)
(* C16: a pass of the validator never ends the process, and when it has    *)
(* ended, every red_yellow_green light referred by a traffic_light         *)
(* regulatory element without a RefLine of type stop_line has the Error    *)
(* "Cannot find a corresponding stop line to this traffic light.",         *)
(* whichever way the light is drawn.                                       *)
(***************************************************************************)
C16_NoStopLine ==
  /\ facing_pc # "crashed"
  /\ FacingReturned =>
       \A l \in Lights : \A r \in ReferringElements(l) :
         ~HasStopLine(r) => HasIssue(ERROR, l.id, MsgNoStopLine)

(***************************************************************************)
(* C17: when a pass of traffic_light_facing.cpp has ended, a               *)
(* red_yellow_green light has the terminal Error of a light that is not    *)
(* referred if and only if no regulatory element of subtype traffic_light  *)
(* refers to it.                                                           *)
(***************************************************************************)
C17_NotReferredIff ==
  (Cpp /\ FacingReturned) =>
    \A l \in Lights :
      HasIssue(ERROR, l.id, MsgNotReferred) <=> ReferringElements(l) = {}

(***************************************************************************)
(* C18: when a pass of traffic_light_facing.cpp has ended and two lanelets *)
(* that refer to one traffic_light regulatory element (with a stop line)   *)
(* judge a light of it differently, the starting edge of one giving a      *)
(* positive cosine with the light and that of the other not, the light has *)
(* the ambiguity Warning and no wrong-direction Error.                     *)
(***************************************************************************)
JudgesCorrect(lanelet, stop_line, light) ==
  cosine(linestring_to_vector3d(get_starting_edge_from_lanelet(lanelet, stop_line)),
         linestring_to_vector3d(light)) = "positive"

OppositeEvidence(r, light) ==
  \E a, b \in LaneletsOf(r) :
    /\ JudgesCorrect(a, get_stop_line_from_reg_elem(r), light)
    /\ ~JudgesCorrect(b, get_stop_line_from_reg_elem(r), light)

C18_OppositeEvidence ==
  (Cpp /\ FacingReturned) =>
    \A l \in Lights : \A r \in ReferringElements(l) :
      (HasStopLine(r) /\ OppositeEvidence(r, l)) =>
        /\ HasIssue(WARNING, l.id, MsgAmbiguous)
        /\ ~HasIssue(ERROR, l.id, MsgWrong)

(***************************************************************************)
(* C19: in a pass of traffic_light_facing.cpp no step of the loop over the *)
(* regulatory elements takes a flag back; when the pass has ended, a light *)
(* has the correct flag exactly if some regulatory element that refers to  *)
(* it judged it correct and the wrong flag exactly if some judged it       *)
(* wrong, in whatever order the elements lie in the map; and a light that  *)
(* one element judged correct and another wrong has the ambiguity Warning  *)
(* as its only terminal issue.                                             *)
(***************************************************************************)
\* the points the judgement of r can read as the stop line
ReferencePoints(r) ==
  IF HasStopLine(r) THEN {get_stop_line_from_reg_elem(r).points} ELSE UninitialisedPoints

\* what r can judge the light to be: the first referring lanelet decides
Judgements(r, light) ==
  LET referring_lanelets == collect_referring_lanelets(lanelet_map, r.id)
  IN  IF referring_lanelets = <<>> THEN {}
      ELSE {IF JudgesCorrect(referring_lanelets[1],
                             LineString(0, "", "", points), light)
            THEN "correct" ELSE "wrong" : points \in ReferencePoints(r)}

JudgedOnly(light, judgement) ==
  \E r \in ReferringElements(light) : Judgements(r, light) = {judgement}

JudgedMaybe(light, judgement) ==
  \E r \in ReferringElements(light) : judgement \in Judgements(r, light)

FlagsKept ==
  (Cpp /\ facing_pc = "scan") =>
    /\ \A id \in DOMAIN tl_has_been_judged_as_correct :
         tl_has_been_judged_as_correct[id] =>
           (id \in DOMAIN tl_has_been_judged_as_correct'
              /\ tl_has_been_judged_as_correct'[id])
    /\ \A id \in DOMAIN tl_has_been_judged_as_wrong :
         tl_has_been_judged_as_wrong[id] =>
           (id \in DOMAIN tl_has_been_judged_as_wrong'
              /\ tl_has_been_judged_as_wrong'[id])

FlagsAccumulated ==
  (Cpp /\ FacingReturned) =>
    \A l \in Lights :
      /\ JudgedOnly(l, "correct") => tl_has_been_judged_as_correct[l.id]
      /\ tl_has_been_judged_as_correct[l.id] => JudgedMaybe(l, "correct")
      /\ JudgedOnly(l, "wrong") => tl_has_been_judged_as_wrong[l.id]
      /\ tl_has_been_judged_as_wrong[l.id] => JudgedMaybe(l, "wrong")
      /\ (JudgedOnly(l, "correct") /\ JudgedOnly(l, "wrong")) =>
           TerminalIssues(l.id) = <<Issue(WARNING, l.id, MsgAmbiguous)>>

C19_FlagsAccumulate == [][FlagsKept]_vars /\ []FlagsAccumulated

\* the first regulatory element of the map judged a light wrong, the second
\* judged it correct, and the light has the Warning
C19_Witness ==
  /\ Cpp
  /\ FacingReturned
  /\ \E l \in Lights :
       /\ Judgements(lanelet_map.regulatoryElementLayer[1], l) = {"wrong"}
       /\ Judgements(lanelet_map.regulatoryElementLayer[2], l) = {"correct"}
       /\ l \in Range(lanelet_map.regulatoryElementLayer[1].refers)
       /\ l \in Range(lanelet_map.regulatoryElementLayer[2].refers)
       /\ TerminalIssues(l.id) = <<Issue(WARNING, l.id, MsgAmbiguous)>>

(***************************************************************************)
(* C20: the second call of the validator on the same map starts its loop   *)
(* over the regulatory elements with no issue and no flag set, and returns *)
(* the issues the first call returned, in the same order (both bodies).    *)
(***************************************************************************)
NoFlagSet(flags) == \A id \in DOMAIN flags : ~flags[id]

ZeroLengthJudgement(r, light) ==
  LET referring_lanelets == collect_referring_lanelets(lanelet_map, r.id)
  IN  /\ referring_lanelets # <<>>
      /\ \A points \in ReferencePoints(r) :
           cosine(linestring_to_vector3d(
                    get_starting_edge_from_lanelet(referring_lanelets[1],
                                                   LineString(0, "", "", points))),
                  linestring_to_vector3d(light)) = "nan"

HasError(id) ==
  \E i \in DOMAIN facing_issues :
    facing_issues[i].severity = ERROR /\ facing_issues[i].id = id

C21_ZeroLengthIsError ==
  (Cpp /\ FacingReturned) =>
    \A l \in Lights :
      /\ (\E r \in ReferringElements(l) : ZeroLengthJudgement(r, l)) => HasError(l.id)
      /\ ((\E r \in ReferringElements(l) : ZeroLengthJudgement(r, l))
            /\ \A r \in ReferringElements(l) :
                 LaneletsOf(r) # {} => ZeroLengthJudgement(r, l))
           => (~tl_has_been_judged_as_correct[l.id] /\ ~tl_has_been_judged_as_wrong[l.id])

(***************************************************************************)
(* C22: when a pass of the validator has ended, every regulatory element   *)
(* of subtype traffic_light to which no lanelet refers has the Warning     *)
(* "Regulatory element of traffic light must be referred by at least one   *)
(* lanelet", reported on the regulatory element with its id.               *)
(***************************************************************************)
UnreferredElements ==
  {r \in Range(lanelet_map.regulatoryElementLayer) :
     r.subtype = "traffic_light" /\ LaneletsOf(r) = {}}

C22_NoLaneletWarning ==
  FacingReturned =>
    \A r \in UnreferredElements :
      [severity |-> WARNING, primitive |-> "RegulatoryElement", id |-> r.id,
       message |-> MsgNoLanelet] \in Range(facing_issues)

(***************************************************************************)
(* C23: get_linestring_midpoint_2d throws a runtime error that names the   *)
(* linestring exactly when the linestring has fewer than two points;       *)
(* otherwise it returns the point whose x and y are the mean of the x and  *)
(* y of the first and the last point, whatever points lie between them.    *)
(***************************************************************************)
C23_Midpoint ==
  LET points == midpoint_linestring.points
      n == Len(points)
  IN  /\ midpoint_pc = "threw" =>
           /\ n < 2
           /\ midpoint_result.thrown = "std::runtime_error"
           /\ midpoint_result.what = MsgMidpoint(midpoint_linestring.id)
      /\ midpoint_pc = "returned" =>
           /\ n >= 2
           /\ 2 * midpoint_result.x = Double(points[1][1]) + Double(points[n][1])
           /\ 2 * midpoint_result.y = Double(points[1][2]) + Double(points[n][2])
           /\ midpoint_result =
                get_linestring_midpoint_2d(
                  [midpoint_linestring EXCEPT !.points = <<points[1], points[n]>>])

\* a linestring of three points whose second point is not the midpoint
C23_Witness ==
  /\ midpoint_pc = "returned"
  /\ Len(midpoint_linestring.points) = 3
  /\ Double(midpoint_linestring.points[2][1]) # midpoint_result.x
  /\ midpoint_linestring.points[1] # midpoint_linestring.points[3]

(***************************************************************************)
(* C24: whatever callbacks the node has run, the loaded map message and    *)
(* the route handler are both there or both missing.                       *)
(***************************************************************************)
C24_MapAndRouteHandler == (map_bin_ptr_ = 0) <=> (route_handler_ptr_ = 0)

(***************************************************************************)
(* C25: in single-pass mode the process exits with code 0 exactly when     *)
(* validateMap returned no issues.                                         *)
(***************************************************************************)
C25_SinglePassExitCode ==
  single_pc = "exited" => (single_exit_code = 0 <=> single_issues = <<>>)

(***************************************************************************)
(* C26: when a callback of the node has run connect_centerline_to_lanelet, *)
(* the handler holds one lane id for every point of the selected           *)
(* centerline, so that centerline_lane_ids.at(i) of validate_centerline is *)
(* in range for every point i.                                             *)
(***************************************************************************)
C26_OneLaneIdPerPoint ==
  callback.name \in {"on_plan_path", "validate"} =>
    /\ Len(centerline_handler_.centerline_lane_ids)
         = Len(get_selected_centerline(centerline_handler_))
    /\ validate_centerline(centerline_handler_) = "none"

(***************************************************************************)
(* C27: a call of on_plan_path that answers MapNotFound,                   *)
(* LaneletsNotConnected or PathNotFound leaves the centerline handler as   *)
(* it was and runs no validation; it answers the empty message exactly     *)
(* when it has stored the centerline planned for the requested route and   *)
(* validated it; and it gives no other answer.                             *)
(***************************************************************************)
PlanPathErrors == {"MapNotFound", "LaneletsNotConnected", "PathNotFound"}

PlanPathAnswered ==
  /\ requests' = requests + 1
  /\ callback'.name = "on_plan_path"
  /\ node_pc' = "spinning"

PlanPathFrame ==
  PlanPathAnswered =>
    /\ response'.message \in PlanPathErrors \cup {""}
    /\ response'.message \in PlanPathErrors =>
         /\ centerline_handler_' = centerline_handler_
         /\ validations' = validations
    /\ response'.message = "" <=>
         /\ validations' = validations + 1
         /\ centerline_handler_'.route = callback'.route
         /\ centerline_handler_'.centerline # <<>>
         /\ route_handler_ptr_ # 0

C27_PlanPathFrame == [][PlanPathFrame]_vars

\* a path was planned and stored, and a later request found no path
C27_Witness ==
  /\ callback.name = "on_plan_path"
  /\ response.message = "PathNotFound"
  /\ centerline_handler_.centerline # <<>>
  /\ centerline_handler_.route # callback.route
  /\ validations = 1

(***************************************************************************)
(* C28: every call of check_lanelet_connection returns, without throwing,  *)
(* the ids of the lanelets route[i] of the route, but the last, whose next *)
(* lanelets do not hold route[i+1], in the order of the route; for a route *)
(* of no or one lanelet that is the empty list.                            *)
(***************************************************************************)
Unconnected(route) ==
  LET lacks_next(i) == route[i + 1] \notin getNextLanelets(route[i])
      found == SelectSeq([i \in 1..(Len(route) - 1) |-> i], lacks_next)
  IN  [k \in DOMAIN found |-> route[found[k]]]

C28_UnconnectedLaneIds ==
  connection_result.called =>
    /\ connection_result.thrown = "none"
    /\ connection_result.unconnected_lane_ids = Unconnected(connection_result.route_lanelets)
    /\ Len(connection_result.route_lanelets) <= 1 =>
         connection_result.unconnected_lane_ids = <<>>

(***************************************************************************)
(* C29: a call of checkTurnDirectionTagging does not end with an           *)
(* exception, and when it has returned, every lanelet has, for every       *)
(* intersection_area polygon for which it passed the test of the bounding  *)
(* box, no issue if its turn_direction is left, straight or right, one     *)
(* Error of code 2 if it is another value, and one Error of code 1 if the  *)
(* lanelet has no turn_direction.                                          *)
(***************************************************************************)
TimesIn(seq, x) == Cardinality({i \in DOMAIN seq : seq[i] = x})

IssuesOfCode(id, code) ==
  Cardinality({i \in DOMAIN turn_issues :
                 /\ turn_issues[i].id = id
                 /\ turn_issues[i].severity = ERROR
                 /\ turn_issues[i].message.code = code})

C29_TurnDirectionIssues ==
  /\ turn_pc # "threw"
  /\ turn_pc = "returned" =>
       \A i \in DOMAIN turn_map.laneletLayer :
         LET lane == turn_map.laneletLayer[i]
             times == TimesIn(turn_checked, lane.id)
         IN  /\ lane.turn_direction \in direction_set =>
                  IssuesOfCode(lane.id, 1) = 0 /\ IssuesOfCode(lane.id, 2) = 0
             /\ (lane.turn_direction # "" /\ lane.turn_direction \notin direction_set) =>
                  IssuesOfCode(lane.id, 1) = 0 /\ IssuesOfCode(lane.id, 2) = times
             /\ lane.turn_direction = "" =>
                  IssuesOfCode(lane.id, 1) = times /\ IssuesOfCode(lane.id, 2) = 0

(***************************************************************************)
(* C30: lanelet_is_within_bbox_2d is true exactly for the lanelets all of  *)
(* whose bound points lie in the box of the polygon, and when the call has *)
(* ended, the lanelets that were checked for an intersection_area polygon  *)
(* are the lanelets inside its box.                                        *)
(***************************************************************************)
AllPointsInBox(bbox, lanelet) ==
  /\ \A i \in DOMAIN lanelet.leftBound2d : contains(bbox, lanelet.leftBound2d[i])
  /\ \A i \in DOMAIN lanelet.rightBound2d : contains(bbox, lanelet.rightBound2d[i])

C30_CheckedIffInside ==
  /\ \A p \in DOMAIN turn_map.polygonLayer : \A l \in DOMAIN turn_map.laneletLayer :
       LET bbox == boundingBox2d(turn_map.polygonLayer[p].points)
           lane == turn_map.laneletLayer[l]
       IN  lanelet_is_within_bbox_2d(bbox, lane) <=> AllPointsInBox(bbox, lane)
  /\ turn_pc = "returned" =>
       \A l \in DOMAIN turn_map.laneletLayer :
         LET lane == turn_map.laneletLayer[l]
             boxes == {p \in DOMAIN turn_map.polygonLayer :
                         /\ turn_map.polygonLayer[p].type = "intersection_area"
                         /\ AllPointsInBox(boundingBox2d(turn_map.polygonLayer[p].points),
                                           lane)}
         IN  TimesIn(turn_checked, lane.id) = Cardinality(boxes)

====
